---- MODULE Spec2Model ----
(***************************************************************************)
(* A model of the resume text-extraction engine of the job portal          *)
(* (src/src/utils/resume-parser.js).                                       *)
(*                                                                         *)
(* A document is a sequence of characters; a character is a one-character  *)
(* string.  The three non-ASCII characters the parser's patterns name are  *)
(* written "U+2022" (bullet), "U+2013" (en dash) and "U+2014" (em dash).   *)
(* Positions are 1-based; a JavaScript index k is the position k + 1.      *)
(***************************************************************************)
EXTENDS Naturals, Integers, Sequences, FiniteSets, TLC

(***************************************************************************)
(* Characters and the String.prototype methods the parser uses.            *)
(***************************************************************************)
LowerSeq == <<"a","b","c","d","e","f","g","h","i","j","k","l","m",
              "n","o","p","q","r","s","t","u","v","w","x","y","z">>
UpperSeq == <<"A","B","C","D","E","F","G","H","I","J","K","L","M",
              "N","O","P","Q","R","S","T","U","V","W","X","Y","Z">>
LowerSet == {LowerSeq[k] : k \in 1..Len(LowerSeq)}
UpperSet == {UpperSeq[k] : k \in 1..Len(UpperSeq)}
Digits == {"0","1","2","3","4","5","6","7","8","9"}
\* \w, \s of an ECMAScript pattern
WordChars == LowerSet \cup UpperSet \cup Digits \cup {"_"}
SpaceChars == {" ", "\t", "\n", "\r", "\f"}
Bullet == "U+2022"
EnDash == "U+2013"
EmDash == "U+2014"

UpperOf == [c \in LowerSet |-> UpperSeq[CHOOSE k \in 1..Len(LowerSeq) : LowerSeq[k] = c]]
LowerOf == [c \in UpperSet |-> LowerSeq[CHOOSE k \in 1..Len(UpperSeq) : UpperSeq[k] = c]]
\* Canonicalize of a case-insensitive pattern: toUpperCase of one character
ToUpperChar(c) == IF c \in LowerSet THEN UpperOf[c] ELSE c
ToLowerChar(c) == IF c \in UpperSet THEN LowerOf[c] ELSE c
\* String.prototype.toLowerCase / toUpperCase
ToLowerCase(s) == [k \in 1..Len(s) |-> ToLowerChar(s[k])]
ToUpperCase(s) == [k \in 1..Len(s) |-> ToUpperChar(s[k])]

\* F applied to the value v: a name for a value that is used more than once
Let(v, F(_)) == F(v)

\* String.prototype.substring(from, to) with JavaScript indices from <= to
Substring(s, from, to) == SubSeq(s, from + 1, to)

\* String.prototype.trim
RECURSIVE TrimStart(_)
TrimStart(s) ==
  IF s # <<>> /\ Head(s) \in SpaceChars THEN TrimStart(Tail(s)) ELSE s
RECURSIVE TrimEnd(_)
TrimEnd(s) ==
  IF s # <<>> /\ s[Len(s)] \in SpaceChars THEN TrimEnd(SubSeq(s, 1, Len(s) - 1)) ELSE s
Trim(s) == TrimEnd(TrimStart(s))

\* String.prototype.startsWith
StartsWith(s, p) == Len(p) <= Len(s) /\ SubSeq(s, 1, Len(p)) = p
\* whether p occurs in s at JavaScript index k
OccursAt(s, p, k) == k + Len(p) <= Len(s) /\ SubSeq(s, k + 1, k + Len(p)) = p
\* String.prototype.indexOf(p, from): a JavaScript index, or -1
IndexOf(s, p, from) ==
  LET hits == {k \in from..Len(s) : OccursAt(s, p, k)}
  IN IF hits = {} THEN -1 ELSE CHOOSE k \in hits : \A j \in hits : k <= j
\* String.prototype.includes
Includes(s, p) == IndexOf(s, p, 0) # -1

\* Array.prototype.join
RECURSIVE Join(_, _)
Join(parts, sep) ==
  IF parts = <<>> THEN <<>>
  ELSE IF Len(parts) = 1 THEN parts[1]
  ELSE parts[1] \o sep \o Join(Tail(parts), sep)

\* String.prototype.split("\n")
RECURSIVE SplitLines(_)
SplitLines(s) ==
  Let(IndexOf(s, <<"\n">>, 0), LAMBDA k :
    IF k = -1 THEN <<s>>
    ELSE <<Substring(s, 0, k)>> \o SplitLines(Substring(s, k + 1, Len(s))))

(***************************************************************************)
(* ECMAScript regular expressions.  A pattern is a tree of the nodes       *)
(* below; a RegExp object is a record of the tree, its i and m flags and   *)
(* its number of capture groups.                                           *)
(***************************************************************************)
Lit(s) == [t |-> "lit", s |-> s]                       \* the characters of s
Set(cs) == [t |-> "set", neg |-> FALSE, cs |-> cs]     \* [...]
NSet(cs) == [t |-> "set", neg |-> TRUE, cs |-> cs]     \* [^...]; NSet({}) is [\s\S]
Cat(xs) == [t |-> "cat", xs |-> xs]                    \* x1 x2 ...
Alt(xs) == [t |-> "alt", xs |-> xs]                    \* x1|x2|...
\* x{min,max}, x{min,}, and their lazy forms x{min,max}?, x{min,}?
Rep(x, min, max) ==
  [t |-> "rep", x |-> x, min |-> min, max |-> max, unbounded |-> FALSE, greedy |-> TRUE]
RepInf(x, min) ==
  [t |-> "rep", x |-> x, min |-> min, max |-> 0, unbounded |-> TRUE, greedy |-> TRUE]
Lazy(x, min, max) ==
  [t |-> "rep", x |-> x, min |-> min, max |-> max, unbounded |-> FALSE, greedy |-> FALSE]
LazyInf(x, min) ==
  [t |-> "rep", x |-> x, min |-> min, max |-> 0, unbounded |-> TRUE, greedy |-> FALSE]
Star(x) == RepInf(x, 0)                                 \* x*
Plus(x) == RepInf(x, 1)                                 \* x+
Opt(x) == Rep(x, 0, 1)                                  \* x?
Grp(n, x) == [t |-> "grp", n |-> n, x |-> x]           \* capture group n
NLA(x) == [t |-> "nla", x |-> x]                       \* (?!x)
WB == [t |-> "wb"]                                     \* \b
BOL == [t |-> "bol"]                                   \* ^
EOL == [t |-> "eol"]                                   \* $
RegExp(x, flags, ng) == [x |-> x, i |-> "i" \in flags, m |-> "m" \in flags, ng |-> ng]

NoMatch == [ok |-> FALSE]
\* whether character c matches the class node n (CharacterSetMatcher)
ClassHas(n, c, ci) ==
  LET in == IF ci THEN \E d \in n.cs : ToUpperChar(d) = ToUpperChar(c) ELSE c \in n.cs
  IN IF n.neg THEN ~in ELSE in
LitAt(s, i, p, ci) ==
  /\ i + Len(p) - 1 <= Len(s)
  /\ \A k \in 1..Len(p) :
        IF ci THEN ToUpperChar(s[i + k - 1]) = ToUpperChar(p[k]) ELSE s[i + k - 1] = p[k]
IsWordAt(s, i) == i >= 1 /\ i <= Len(s) /\ s[i] \in WordChars
\* the quantifier n after one more iteration
OnceLess(n) ==
  [n EXCEPT !.min = IF @ > 0 THEN @ - 1 ELSE 0,
            !.max = IF n.unbounded THEN 0 ELSE @ - 1]
\* how many characters from position i on the class n can take, at most
\* max of them when n is bounded
RunLength(n, set, s, i, ci) ==
  LET most == IF n.unbounded \/ n.max > Len(s) - i + 1 THEN Len(s) - i + 1 ELSE n.max
      stops == {k \in 0..most - 1 : ~ClassHas(set, s[i + k], ci)}
  IN IF stops = {} THEN most ELSE CHOOSE k \in stops : \A j \in stops : k <= j
\* of the attempts <<rank, result>>, the successful one of least rank
FirstOf(attempts) ==
  LET good == {a \in attempts : a[2].ok}
  IN IF good = {} THEN NoMatch
     ELSE (CHOOSE a \in good : \A b \in good : a[1] <= b[1])[2]

\* The backtracking matcher: todo is the sequence of nodes still to match,
\* at.i the position to match from and at.caps the captures so far (a pair
\* <<from, to>> of positions, to exclusive; <<0, 0>> for a group that took
\* no part).  Of the ways to match, the one a backtracking search finds
\* first is the result: alternatives left to right, a greedy quantifier
\* longest first, a lazy one shortest first.
RECURSIVE Backtrack(_, _, _, _)
Backtrack(todo, s, at, re) ==
  CASE todo = <<>> -> [ok |-> TRUE, end |-> at.i, caps |-> at.caps]
    [] todo # <<>> /\ Head(todo).t = "lit" ->
         IF LitAt(s, at.i, Head(todo).s, re.i)
         THEN Backtrack(Tail(todo), s, [at EXCEPT !.i = @ + Len(Head(todo).s)], re)
         ELSE NoMatch
    [] todo # <<>> /\ Head(todo).t = "set" ->
         IF at.i <= Len(s) /\ ClassHas(Head(todo), s[at.i], re.i)
         THEN Backtrack(Tail(todo), s, [at EXCEPT !.i = @ + 1], re)
         ELSE NoMatch
    [] todo # <<>> /\ Head(todo).t = "cat" -> Backtrack(Head(todo).xs \o Tail(todo), s, at, re)
    [] todo # <<>> /\ Head(todo).t = "alt" ->
         FirstOf({<<k, Backtrack(<<Head(todo).xs[k]>> \o Tail(todo), s, at, re)>> :
                     k \in 1..Len(Head(todo).xs)})
    [] todo # <<>> /\ Head(todo).t = "rep" /\ Head(todo).x.t = "set" ->
         \* a quantified class: every length the class can take, longest
         \* (greedy) or shortest (lazy) first
         LET n == Head(todo)
             run == RunLength(n, n.x, s, at.i, re.i)
         IN FirstOf({<<IF n.greedy THEN run - k ELSE k,
                       Backtrack(Tail(todo), s, [at EXCEPT !.i = @ + k], re)>> :
                        k \in n.min..run})
    [] todo # <<>> /\ Head(todo).t = "rep" /\ Head(todo).x.t # "set" ->
         LET n == Head(todo)
         IN IF n.min > 0
            THEN Backtrack(<<n.x, OnceLess(n)>> \o Tail(todo), s, at, re)
            ELSE IF ~n.unbounded /\ n.max = 0 THEN Backtrack(Tail(todo), s, at, re)
            ELSE FirstOf({
                   <<IF n.greedy THEN 1 ELSE 2,
                     Backtrack(<<n.x, [t |-> "progress", from |-> at.i], OnceLess(n)>>
                                 \o Tail(todo), s, at, re)>>,
                   <<IF n.greedy THEN 2 ELSE 1, Backtrack(Tail(todo), s, at, re)>>})
    [] todo # <<>> /\ Head(todo).t = "progress" ->
         \* an iteration that matched the empty string is rejected
         IF at.i = Head(todo).from THEN NoMatch ELSE Backtrack(Tail(todo), s, at, re)
    [] todo # <<>> /\ Head(todo).t = "grp" ->
         Backtrack(<<Head(todo).x, [t |-> "close", n |-> Head(todo).n, from |-> at.i]>>
                     \o Tail(todo), s, at, re)
    [] todo # <<>> /\ Head(todo).t = "close" ->
         Backtrack(Tail(todo), s,
                   [at EXCEPT !.caps[Head(todo).n] = <<Head(todo).from, at.i>>], re)
    [] todo # <<>> /\ Head(todo).t = "nla" ->
         IF Backtrack(<<Head(todo).x>>, s, at, re).ok THEN NoMatch
         ELSE Backtrack(Tail(todo), s, at, re)
    [] todo # <<>> /\ Head(todo).t = "wb" ->
         IF IsWordAt(s, at.i - 1) # IsWordAt(s, at.i) THEN Backtrack(Tail(todo), s, at, re)
         ELSE NoMatch
    [] todo # <<>> /\ Head(todo).t = "bol" ->
         IF at.i = 1 \/ (re.m /\ s[at.i - 1] = "\n") THEN Backtrack(Tail(todo), s, at, re)
         ELSE NoMatch
    [] todo # <<>> /\ Head(todo).t = "eol" ->
         IF at.i = Len(s) + 1 \/ (re.m /\ s[at.i] = "\n") THEN Backtrack(Tail(todo), s, at, re)
         ELSE NoMatch

\* the match of re that starts at JavaScript index k, if there is one
MatchAt(re, s, k) ==
  Backtrack(<<re.x>>, s, [i |-> k + 1, caps |-> [g \in 1..re.ng |-> <<0, 0>>]], re)
\* RegExpBuiltinExec from JavaScript index lastIndex: the leftmost match at
\* or after it.  index and end are JavaScript indices (end exclusive), all
\* is the matched text, g[k] the text of group k ("" when the group took no
\* part) and has[k] whether it took part.
ExecFrom(re, s, lastIndex) ==
  Let({k \in lastIndex..Len(s) : MatchAt(re, s, k).ok}, LAMBDA starts :
    IF starts = {} THEN NoMatch
    ELSE Let(CHOOSE k \in starts : \A j \in starts : k <= j, LAMBDA k :
         Let(MatchAt(re, s, k), LAMBDA r :
           [ok |-> TRUE, index |-> k, end |-> r.end - 1,
            all |-> SubSeq(s, k + 1, r.end - 1),
            g |-> [j \in 1..re.ng |-> SubSeq(s, r.caps[j][1], r.caps[j][2] - 1)],
            has |-> [j \in 1..re.ng |-> r.caps[j] # <<0, 0>>]])))
\* String.prototype.match with a pattern that has no g flag
Match(s, re) == ExecFrom(re, s, 0)
\* RegExp.prototype.test
Test(re, s) == Match(s, re).ok

(***************************************************************************)
(* extractSection: the span of the document under one of sectionHeaders.   *)
(***************************************************************************)
commonHeaders ==
  <<<<"e", "d", "u", "c", "a", "t", "i", "o", "n">>,
     <<"e", "x", "p", "e", "r", "i", "e", "n", "c", "e">>,
     <<"s", "k", "i", "l", "l", "s">>,
     <<"p", "r", "o", "j", "e", "c", "t", "s">>,
     <<"c", "e", "r", "t", "i", "f", "i", "c", "a", "t", "i", "o", "n", "s">>,
     <<"a", "c", "h", "i", "e", "v", "e", "m", "e", "n", "t", "s">>,
     <<"p", "u", "b", "l", "i", "c", "a", "t", "i", "o", "n", "s">>,
     <<"r", "e", "f", "e", "r", "e", "n", "c", "e", "s">>,
     <<"i", "n", "t", "e", "r", "e", "s", "t", "s">>,
     <<"s", "u", "m", "m", "a", "r", "y">>,
     <<"o", "b", "j", "e", "c", "t", "i", "v", "e">>,
     <<"p", "r", "o", "f", "i", "l", "e">>,
     <<"c", "o", "n", "t", "a", "c", "t">>,
     <<"p", "e", "r", "s", "o", "n", "a", "l">>,
     <<"w", "o", "r", "k", " ", "h", "i", "s", "t", "o", "r", "y">>,
     <<"e", "m", "p", "l", "o", "y", "m", "e", "n", "t">>,
     <<"q", "u", "a", "l", "i", "f", "i", "c", "a", "t", "i", "o", "n", "s">>,
     <<"l", "a", "n", "g", "u", "a", "g", "e", "s">>,
     <<"a", "w", "a", "r", "d", "s">>,
     <<"v", "o", "l", "u", "n", "t", "e", "e", "r">>,
     <<"r", "e", "s", "e", "a", "r", "c", "h">>,
     <<"t", "e", "a", "c", "h", "i", "n", "g">>,
     <<"g", "r", "a", "n", "t", "s">>,
     <<"f", "u", "n", "d", "i", "n", "g">>,
     <<"c", "o", "n", "f", "e", "r", "e", "n", "c", "e", "s">>,
     <<"p", "r", "e", "s", "e", "n", "t", "a", "t", "i", "o", "n", "s">>,
     <<"p", "r", "o", "f", "e", "s", "s", "i", "o", "n", "a", "l", " ", "a", "c", "t", "i", "v", "i", "t", "i", "e", "s">>,
     <<"m", "e", "m", "b", "e", "r", "s", "h", "i", "p", "s">>,
     <<"a", "f", "f", "i", "l", "i", "a", "t", "i", "o", "n", "s">>,
     <<"s", "e", "r", "v", "i", "c", "e">>,
     <<"h", "o", "n", "o", "r", "s">>,
     <<"d", "i", "s", "t", "i", "n", "c", "t", "i", "o", "n", "s">>,
     <<"e", "x", "t", "r", "a", "c", "u", "r", "r", "i", "c", "u", "l", "a", "r">>,
     <<"a", "c", "t", "i", "v", "i", "t", "i", "e", "s">>,
     <<"l", "e", "a", "d", "e", "r", "s", "h", "i", "p">>,
     <<"t", "e", "c", "h", "n", "i", "c", "a", "l", " ", "s", "k", "i", "l", "l", "s">>,
     <<"s", "o", "f", "t", " ", "s", "k", "i", "l", "l", "s">>,
     <<"c", "o", "u", "r", "s", "e", "w", "o", "r", "k">>,
     <<"t", "r", "a", "i", "n", "i", "n", "g">>,
     <<"w", "o", "r", "k", "s", "h", "o", "p", "s">>>>

RestOfLine == Cat(<<Star(NSet({"\n"})), Lit(<<"\n">>)>>)      \* [^\n]*\n
\* the seven header shapes built from one header with new RegExp(..., 'i')
HeaderPatterns(header) ==
  <<RegExp(Cat(<<WB, Lit(header), Star(Set(SpaceChars)), Lit(<<":">>), Star(Set(SpaceChars)),
                 RestOfLine>>), {"i"}, 0),
    RegExp(Cat(<<WB, Lit(header), WB, RestOfLine, Plus(Set({"-", "="})), Lit(<<"\n">>)>>),
           {"i"}, 0),
    RegExp(Cat(<<WB, Lit(ToUpperCase(header)), WB, RestOfLine>>), {"i"}, 0),
    RegExp(Alt(<<Cat(<<Lit(<<"[">>), Star(Set(SpaceChars)), Lit(header), Star(Set(SpaceChars)),
                       Lit(<<"]">>)>>),
                 Cat(<<Lit(<<"(">>), Star(Set(SpaceChars)), Lit(header), Star(Set(SpaceChars)),
                       Lit(<<")">>)>>)>>), {"i"}, 0),
    RegExp(Alt(<<Cat(<<Lit(<<"\\", "s", "e", "c", "t", "i", "o", "n", "{">>), Lit(header),
                       Lit(<<"}">>)>>),
                 Cat(<<Lit(<<"\\", "s", "u", "b", "s", "e", "c", "t", "i", "o", "n", "{">>),
                       Lit(header), Lit(<<"}">>)>>)>>), {"i"}, 0),
    RegExp(Cat(<<Plus(Set(Digits)), Lit(<<".">>), Star(Set(SpaceChars)), Lit(header), WB,
                 RestOfLine>>), {"i"}, 0),
    RegExp(Cat(<<WB, Lit(header), WB, RestOfLine>>), {"i"}, 0)>>

\* FirstPatternMatch with the pattern whose match starts first in s
FirstPatternMatchLeftmost(s, patterns) ==
  Let({m \in {Match(s, patterns[k]) : k \in 1..Len(patterns)} : m.ok}, LAMBDA found :
    IF found = {} THEN NoMatch
    ELSE CHOOSE m \in found : \A other \in found : m.index <= other.index)
\* the match of the first pattern, in order, that matches s
FirstPatternMatch(s, patterns) ==
  FirstOf({<<k, Match(s, patterns[k])>> : k \in 1..Len(patterns)})
\* the match of the first pattern of header that matches s.  Each of the
\* seven patterns holds the header itself, compared without regard to case,
\* so none matches a text in which the header does not occur: the matcher
\* is run only on the others.
HeaderMatch(s, header) ==
  IF Includes(ToLowerCase(s), ToLowerCase(header))
  THEN FirstPatternMatch(s, HeaderPatterns(header))
  ELSE NoMatch

\* the JavaScript index where the section that starts at startIndex ends:
\* the least, over the common headers other than header, of the index of
\* the first of that header's patterns that matches the rest of the text
SectionEnd(text, header, startIndex) ==
  Let(Substring(text, startIndex, Len(text)), LAMBDA tail :
  Let({HeaderMatch(tail, commonHeaders[k]) :
         k \in {j \in 1..Len(commonHeaders) : commonHeaders[j] # header}}, LAMBDA nextMatch :
  Let({startIndex + m.index : m \in {n \in nextMatch : n.ok}}, LAMBDA found :
    IF found = {} THEN Len(text) ELSE CHOOSE e \in found : \A f \in found : e <= f)))

\* the loop over sectionHeaders from the k-th on; sectionText is the span
\* the loop has assigned so far
RECURSIVE SectionLoop(_, _, _, _)
SectionLoop(text, sectionHeaders, k, sectionText) ==
  IF k > Len(sectionHeaders) THEN sectionText
  ELSE Let(HeaderMatch(text, sectionHeaders[k]), LAMBDA match :
         IF ~match.ok THEN SectionLoop(text, sectionHeaders, k + 1, sectionText)
         ELSE Let(match.index + Len(match.all), LAMBDA startIndex :
              Let(SectionEnd(text, sectionHeaders[k], startIndex), LAMBDA endIndex :
              Let(Trim(Substring(text, startIndex, endIndex)), LAMBDA span :
                IF Len(span) < 10 /\ Len(sectionHeaders) > 1
                THEN SectionLoop(text, sectionHeaders, k + 1, span)
                ELSE span))))
extractSection(text, sectionHeaders) == SectionLoop(text, sectionHeaders, 1, <<>>)

(***************************************************************************)
(* null, and the || of two strings.                                        *)
(***************************************************************************)
Null == <<"null">>
OrElse(v, default) == IF v = Null \/ v = <<>> THEN default ELSE v

\* String.prototype.split with a separator pattern that matches no empty
\* string: the parts of s from JavaScript index p on
RECURSIVE SplitFrom(_, _, _)
SplitFrom(s, re, p) ==
  Let(ExecFrom(re, s, p), LAMBDA m :
    IF ~m.ok THEN <<Substring(s, p, Len(s))>>
    ELSE <<Substring(s, p, m.index)>> \o SplitFrom(s, re, m.end))
Split(s, re) == SplitFrom(s, re, 0)

(***************************************************************************)
(* extractName and parseFullName.                                          *)
(***************************************************************************)

\* line 229: /(?:\bname\s*:?\s*|\bfull\s+name\s*:?\s*|\bresume\s+of\s+|\bcv\s+of\s+)([A-Z][a-zA-Z'-]+(?:\s+[A-Z][a-zA-Z'-]+){1,3})/i
labeledNameRegex ==
  RegExp(Cat(<<
           Alt(<<
             Cat(<<
               WB,
               Lit(<<"n", "a", "m", "e">>),
               Star(Set(SpaceChars)),
               Opt(Lit(<<":">>)),
               Star(Set(SpaceChars))>>),
             Cat(<<
               WB,
               Lit(<<"f", "u", "l", "l">>),
               Plus(Set(SpaceChars)),
               Lit(<<"n", "a", "m", "e">>),
               Star(Set(SpaceChars)),
               Opt(Lit(<<":">>)),
               Star(Set(SpaceChars))>>),
             Cat(<<
               WB,
               Lit(<<"r", "e", "s", "u", "m", "e">>),
               Plus(Set(SpaceChars)),
               Lit(<<"o", "f">>),
               Plus(Set(SpaceChars))>>),
             Cat(<<
               WB,
               Lit(<<"c", "v">>),
               Plus(Set(SpaceChars)),
               Lit(<<"o", "f">>),
               Plus(Set(SpaceChars))>>)>>),
           Grp(1, Cat(<<
               Set(UpperSet),
               Plus(Set(LowerSet \cup UpperSet \cup {"'", "-"})),
               Rep(Cat(<<
                   Plus(Set(SpaceChars)),
                   Set(UpperSet),
                   Plus(Set(LowerSet \cup UpperSet \cup {"'", "-"}))>>), 1, 3)>>))>>),
         {"i"}, 1)

\* line 238: /^([A-Z][a-zA-Z'-]+(?:\s+[A-Z][a-zA-Z'-]+){1,3})$/m
firstLineRegex ==
  RegExp(Cat(<<
           BOL,
           Grp(1, Cat(<<
               Set(UpperSet),
               Plus(Set(LowerSet \cup UpperSet \cup {"'", "-"})),
               Rep(Cat(<<
                   Plus(Set(SpaceChars)),
                   Set(UpperSet),
                   Plus(Set(LowerSet \cup UpperSet \cup {"'", "-"}))>>), 1, 3)>>)),
           EOL>>),
         {"m"}, 1)

\* line 249: /([A-Z][a-zA-Z'-]+(?:\s+[A-Z][a-zA-Z'-]+){1,3})\s*(?:\n|$)/
contactNameRegex ==
  RegExp(Cat(<<
           Grp(1, Cat(<<
               Set(UpperSet),
               Plus(Set(LowerSet \cup UpperSet \cup {"'", "-"})),
               Rep(Cat(<<
                   Plus(Set(SpaceChars)),
                   Set(UpperSet),
                   Plus(Set(LowerSet \cup UpperSet \cup {"'", "-"}))>>), 1, 3)>>)),
           Star(Set(SpaceChars)),
           Alt(<<Lit(<<"\n">>), EOL>>)>>),
         {}, 1)

\* line 258: /([A-Z][a-zA-Z'-]+)\s+(?:([A-Z][a-zA-Z'-]+)\s+)?([A-Z][a-zA-Z'-]+)/
fallbackRegex ==
  RegExp(Cat(<<
           Grp(1, Cat(<<Set(UpperSet), Plus(Set(LowerSet \cup UpperSet \cup {"'", "-"}))>>)),
           Plus(Set(SpaceChars)),
           Opt(Cat(<<
               Grp(2, Cat(<<Set(UpperSet), Plus(Set(LowerSet \cup UpperSet \cup {"'", "-"}))>>)),
               Plus(Set(SpaceChars))>>)),
           Grp(3, Cat(<<Set(UpperSet), Plus(Set(LowerSet \cup UpperSet \cup {"'", "-"}))>>))>>),
         {}, 3)

\* line 278: /\s+/
whitespaceRun ==
  RegExp(Plus(Set(SpaceChars)),
         {}, 0)

NoName == [firstName |-> <<>>, middleName |-> <<>>, lastName |-> <<>>]
\* parseFullName with the second word alone taken for the middle name
parseFullNameSecondWord(fullName) ==
  Let(Split(Trim(fullName), whitespaceRun), LAMBDA nameParts :
    IF Len(nameParts) = 1
    THEN [firstName |-> nameParts[1], middleName |-> <<>>, lastName |-> <<>>]
    ELSE IF Len(nameParts) = 2
    THEN [firstName |-> nameParts[1], middleName |-> <<>>, lastName |-> nameParts[2]]
    ELSE [firstName |-> nameParts[1],
          middleName |-> nameParts[2],
          lastName |-> nameParts[Len(nameParts)]])
parseFullName(fullName) ==
  Let(Split(Trim(fullName), whitespaceRun), LAMBDA nameParts :
    IF Len(nameParts) = 1
    THEN [firstName |-> nameParts[1], middleName |-> <<>>, lastName |-> <<>>]
    ELSE IF Len(nameParts) = 2
    THEN [firstName |-> nameParts[1], middleName |-> <<>>, lastName |-> nameParts[2]]
    ELSE [firstName |-> nameParts[1],
          middleName |-> Join(SubSeq(nameParts, 2, Len(nameParts) - 1), <<" ">>),
          lastName |-> nameParts[Len(nameParts)]])

contactHeaders ==
  <<<<"c", "o", "n", "t", "a", "c", "t">>, <<"p", "e", "r", "s", "o", "n", "a", "l", " ", "i", "n", "f", "o", "r", "m", "a", "t", "i", "o", "n">>, <<"p", "e", "r", "s", "o", "n", "a", "l", " ", "d", "e", "t", "a", "i", "l", "s">>>>
\* DetectName with the standalone line tried before the labeled name
DetectNameStandaloneFirst(text) ==
  Let(Match(text, firstLineRegex), LAMBDA firstLineMatch :
    IF firstLineMatch.ok THEN [by |-> "firstLine", match |-> firstLineMatch]
    ELSE Let(Match(text, labeledNameRegex), LAMBDA labeledMatch :
    IF labeledMatch.ok THEN [by |-> "labeled", match |-> labeledMatch]
    ELSE Let(extractSection(text, contactHeaders), LAMBDA contactSection :
         Let(IF contactSection # <<>> THEN Match(contactSection, contactNameRegex) ELSE NoMatch,
             LAMBDA contactMatch :
    IF contactMatch.ok THEN [by |-> "contact", match |-> contactMatch]
    ELSE Let(Match(text, fallbackRegex), LAMBDA fallbackMatch :
    IF fallbackMatch.ok THEN [by |-> "fallback", match |-> fallbackMatch]
    ELSE [by |-> "none", match |-> NoMatch])))))
\* which of the four strategies of extractName finds a name in text, in the
\* order the function tries them, and the match it rests on
DetectName(text) ==
  Let(Match(text, labeledNameRegex), LAMBDA labeledMatch :
    IF labeledMatch.ok THEN [by |-> "labeled", match |-> labeledMatch]
    ELSE Let(Match(text, firstLineRegex), LAMBDA firstLineMatch :
    IF firstLineMatch.ok THEN [by |-> "firstLine", match |-> firstLineMatch]
    ELSE Let(extractSection(text, contactHeaders), LAMBDA contactSection :
         Let(IF contactSection # <<>> THEN Match(contactSection, contactNameRegex) ELSE NoMatch,
             LAMBDA contactMatch :
    IF contactMatch.ok THEN [by |-> "contact", match |-> contactMatch]
    ELSE Let(Match(text, fallbackRegex), LAMBDA fallbackMatch :
    IF fallbackMatch.ok THEN [by |-> "fallback", match |-> fallbackMatch]
    ELSE [by |-> "none", match |-> NoMatch])))))
extractName(text) ==
  Let(DetectName(text), LAMBDA found :
    IF found.by \in {"labeled", "firstLine", "contact"}
    THEN parseFullName(Trim(found.match.g[1]))
    ELSE IF found.by = "fallback"
    THEN [firstName |-> found.match.g[1],
          middleName |-> found.match.g[2],
          lastName |-> OrElse(found.match.g[3], found.match.g[2])]
    ELSE NoName)

(***************************************************************************)
(* extractLinkedIn, extractGithubUrl, extractPortfolioUrl.                 *)
(***************************************************************************)

\* line 346: /(?:linkedin|profile|social)\s*:?\s*((?:https?:\/\/)?(?:www\.)?linkedin\.com\/in\/[\w-]+(?:\/[\w-]+)*)/i
\* line 348: /(?:https?:\/\/)?(?:www\.)?linkedin\.com\/in\/[\w-]+(?:\/[\w-]+)*/
linkedinRegexes ==
  <<RegExp(Cat(<<
           Alt(<<
             Lit(<<"l", "i", "n", "k", "e", "d", "i", "n">>),
             Lit(<<"p", "r", "o", "f", "i", "l", "e">>),
             Lit(<<"s", "o", "c", "i", "a", "l">>)>>),
           Star(Set(SpaceChars)),
           Opt(Lit(<<":">>)),
           Star(Set(SpaceChars)),
           Grp(1, Cat(<<
               Opt(Cat(<<Lit(<<"h", "t", "t", "p">>), Opt(Lit(<<"s">>)), Lit(<<":", "/", "/">>)>>)),
               Opt(Lit(<<"w", "w", "w", ".">>)),
               Lit(<<"l", "i", "n", "k", "e", "d", "i", "n", ".", "c", "o", "m", "/", "i", "n", "/">>),
               Plus(Set(WordChars \cup {"-"})),
               Star(Cat(<<Lit(<<"/">>), Plus(Set(WordChars \cup {"-"}))>>))>>))>>),
         {"i"}, 1),
    RegExp(Cat(<<
           Opt(Cat(<<Lit(<<"h", "t", "t", "p">>), Opt(Lit(<<"s">>)), Lit(<<":", "/", "/">>)>>)),
           Opt(Lit(<<"w", "w", "w", ".">>)),
           Lit(<<"l", "i", "n", "k", "e", "d", "i", "n", ".", "c", "o", "m", "/", "i", "n", "/">>),
           Plus(Set(WordChars \cup {"-"})),
           Star(Cat(<<Lit(<<"/">>), Plus(Set(WordChars \cup {"-"}))>>))>>),
         {}, 0)>>

\* line 377: /(?:github|git|repo|repository|code)\s*:?\s*((?:https?:\/\/)?(?:www\.)?github\.com\/[\w-]+(?:\/[\w-]+)*)/i
\* line 379: /(?:https?:\/\/)?(?:www\.)?github\.com\/[\w-]+(?:\/[\w-]+)*/
githubRegexes ==
  <<RegExp(Cat(<<
           Alt(<<
             Lit(<<"g", "i", "t", "h", "u", "b">>),
             Lit(<<"g", "i", "t">>),
             Lit(<<"r", "e", "p", "o">>),
             Lit(<<"r", "e", "p", "o", "s", "i", "t", "o", "r", "y">>),
             Lit(<<"c", "o", "d", "e">>)>>),
           Star(Set(SpaceChars)),
           Opt(Lit(<<":">>)),
           Star(Set(SpaceChars)),
           Grp(1, Cat(<<
               Opt(Cat(<<Lit(<<"h", "t", "t", "p">>), Opt(Lit(<<"s">>)), Lit(<<":", "/", "/">>)>>)),
               Opt(Lit(<<"w", "w", "w", ".">>)),
               Lit(<<"g", "i", "t", "h", "u", "b", ".", "c", "o", "m", "/">>),
               Plus(Set(WordChars \cup {"-"})),
               Star(Cat(<<Lit(<<"/">>), Plus(Set(WordChars \cup {"-"}))>>))>>))>>),
         {"i"}, 1),
    RegExp(Cat(<<
           Opt(Cat(<<Lit(<<"h", "t", "t", "p">>), Opt(Lit(<<"s">>)), Lit(<<":", "/", "/">>)>>)),
           Opt(Lit(<<"w", "w", "w", ".">>)),
           Lit(<<"g", "i", "t", "h", "u", "b", ".", "c", "o", "m", "/">>),
           Plus(Set(WordChars \cup {"-"})),
           Star(Cat(<<Lit(<<"/">>), Plus(Set(WordChars \cup {"-"}))>>))>>),
         {}, 0)>>

\* line 408: /(?:portfolio|website|personal site|web|homepage)\s*:?\s*((?:https?:\/\/)?(?:www\.)?[\w-]+\.[a-z]{2,}(?:\/[\w-\.\/?%&=]*)?)/i
\* line 410: /(?:https?:\/\/)?(?:www\.)?(?!linkedin\.com|github\.com)[\w-]+\.[a-z]{2,}(?:\/[\w-\.\/?%&=]*)?\/[\w-\.\/?%&=]*/
portfolioRegexes ==
  <<RegExp(Cat(<<
           Alt(<<
             Lit(<<"p", "o", "r", "t", "f", "o", "l", "i", "o">>),
             Lit(<<"w", "e", "b", "s", "i", "t", "e">>),
             Lit(<<"p", "e", "r", "s", "o", "n", "a", "l", " ", "s", "i", "t", "e">>),
             Lit(<<"w", "e", "b">>),
             Lit(<<"h", "o", "m", "e", "p", "a", "g", "e">>)>>),
           Star(Set(SpaceChars)),
           Opt(Lit(<<":">>)),
           Star(Set(SpaceChars)),
           Grp(1, Cat(<<
               Opt(Cat(<<Lit(<<"h", "t", "t", "p">>), Opt(Lit(<<"s">>)), Lit(<<":", "/", "/">>)>>)),
               Opt(Lit(<<"w", "w", "w", ".">>)),
               Plus(Set(WordChars \cup {"-"})),
               Lit(<<".">>),
               RepInf(Set(LowerSet), 2),
               Opt(Cat(<<
                   Lit(<<"/">>),
                   Star(Set(WordChars \cup {"-", ".", "/", "?", "%", "&", "="}))>>))>>))>>),
         {"i"}, 1),
    RegExp(Cat(<<
           Opt(Cat(<<Lit(<<"h", "t", "t", "p">>), Opt(Lit(<<"s">>)), Lit(<<":", "/", "/">>)>>)),
           Opt(Lit(<<"w", "w", "w", ".">>)),
           NLA(Alt(<<
               Lit(<<"l", "i", "n", "k", "e", "d", "i", "n", ".", "c", "o", "m">>),
               Lit(<<"g", "i", "t", "h", "u", "b", ".", "c", "o", "m">>)>>)),
           Plus(Set(WordChars \cup {"-"})),
           Lit(<<".">>),
           RepInf(Set(LowerSet), 2),
           Opt(Cat(<<Lit(<<"/">>), Star(Set(WordChars \cup {"-", ".", "/", "?", "%", "&", "="}))>>)),
           Lit(<<"/">>),
           Star(Set(WordChars \cup {"-", ".", "/", "?", "%", "&", "="}))>>),
         {}, 0)>>

Https == <<"h", "t", "t", "p", "s", ":", "/", "/">>
\* The loop the three functions share: the first pattern of regexes that
\* matches gives the URL, group 1 of the first pattern (the one whose source
\* holds the label alternatives, the test regex.toString().includes(...)
\* of the code) and the whole match of the second; a URL that does not start
\* with "http" gets "https://" in front.
FirstUrl(text, regexes, k) ==
  Let(Match(text, regexes[k]), LAMBDA match :
    IF ~match.ok THEN Null
    ELSE Let(IF k = 1 THEN match.g[1] ELSE match.all, LAMBDA url :
           IF ~StartsWith(url, <<"h", "t", "t", "p">>) THEN Https \o url ELSE url))
\* the loop with the bare pattern tried before the labeled one
UrlOfBareFirst(text, regexes) ==
  Let(FirstUrl(text, regexes, 2), LAMBDA bare :
    IF bare # Null THEN bare ELSE FirstUrl(text, regexes, 1))
UrlOf(text, regexes) ==
  Let(FirstUrl(text, regexes, 1), LAMBDA labeled :
    IF labeled # Null THEN labeled ELSE FirstUrl(text, regexes, 2))
extractLinkedIn(text) == UrlOf(text, linkedinRegexes)
extractGithubUrl(text) == UrlOf(text, githubRegexes)
extractPortfolioUrl(text) == UrlOf(text, portfolioRegexes)

(***************************************************************************)
(* More of String.prototype, RegExp.prototype and Array.prototype.         *)
(***************************************************************************)

\* RegExp.prototype.exec of a pattern with the g flag, called from lastIndex
\* on until it returns null: the matches in order.  Each call starts at the
\* lastIndex the call before left, the end of its match.
RECURSIVE ExecAll(_, _, _)
ExecAll(re, s, lastIndex) ==
  Let(ExecFrom(re, s, lastIndex), LAMBDA m :
    IF ~m.ok THEN <<>> ELSE <<m>> \o ExecAll(re, s, m.end))
\* String.prototype.match with a pattern that has the g flag: the matched
\* texts (the empty sequence stands for null)
MatchAll(s, re) ==
  Let(ExecAll(re, s, 0), LAMBDA ms : [k \in 1..Len(ms) |-> ms[k].all])

\* String.prototype.replace(re, by) with a pattern that has no g flag
ReplaceFirst(s, re, by) ==
  Let(Match(s, re), LAMBDA m :
    IF ~m.ok THEN s ELSE Substring(s, 0, m.index) \o by \o Substring(s, m.end, Len(s)))
\* String.prototype.replace(re, by) with a pattern that has the g flag and no group
ReplaceAll(s, re, by) == Join(Split(s, re), by)
\* String.prototype.replace(p, by) with a string p
ReplaceString(s, p, by) ==
  Let(IndexOf(s, p, 0), LAMBDA k :
    IF k = -1 THEN s ELSE Substring(s, 0, k) \o by \o Substring(s, k + Len(p), Len(s)))
\* String.prototype.endsWith
EndsWith(s, p) == Len(p) <= Len(s) /\ SubSeq(s, Len(s) - Len(p) + 1, Len(s)) = p

\* Array.prototype.includes
ArrayIncludes(array, x) == \E k \in 1..Len(array) : array[k] = x
\* items.forEach(x => { if (!array.includes(x)) array.push(x) })
RECURSIVE PushNew(_, _)
PushNew(array, items) ==
  IF items = <<>> THEN array
  ELSE PushNew(IF ArrayIncludes(array, Head(items)) THEN array ELSE Append(array, Head(items)),
               Tail(items))

DigitSeq == <<"0", "1", "2", "3", "4", "5", "6", "7", "8", "9">>
\* parseInt(s, 10) of a string of digits
RECURSIVE ParseInt(_)
ParseInt(s) ==
  IF s = <<>> THEN 0
  ELSE 10 * ParseInt(SubSeq(s, 1, Len(s) - 1))
       + (CHOOSE d \in 0..9 : DigitSeq[d + 1] = s[Len(s)])
\* Number.prototype.toString of a natural number
RECURSIVE NumberToString(_)
NumberToString(n) ==
  IF n < 10 THEN <<DigitSeq[n + 1]>> ELSE NumberToString(n \div 10) \o <<DigitSeq[(n % 10) + 1]>>

(***************************************************************************)
(* extractEmail, extractPhone, extractAddress, extractPattern.             *)
(***************************************************************************)
extractEmail(text) ==
  Let(Match(text, RegExp(Cat(<<
             Plus(Set(LowerSet \cup UpperSet \cup Digits \cup {".", "_", "%", "+", "-"})),
             Lit(<<"@">>),
             Plus(Set(LowerSet \cup UpperSet \cup Digits \cup {".", "-"})),
             Lit(<<".">>),
             RepInf(Set(LowerSet \cup UpperSet), 2)>>),
           {}, 0)), LAMBDA match :
    IF match.ok THEN match.all ELSE Null)

extractPhone(text) ==
  Let(Match(text, RegExp(Cat(<<
             Alt(<<
               Lit(<<"p", "h", "o", "n", "e">>),
               Lit(<<"m", "o", "b", "i", "l", "e">>),
               Lit(<<"c", "e", "l", "l">>),
               Lit(<<"c", "o", "n", "t", "a", "c", "t">>),
               Lit(<<"t", "e", "l">>)>>),
             Star(Set(SpaceChars)),
             Opt(Lit(<<":">>)),
             Star(Set(SpaceChars)),
             Grp(1, Cat(<<
                 Opt(Cat(<<
                     Opt(Lit(<<"+">>)),
                     Rep(Set(Digits), 1, 3),
                     Opt(Set(SpaceChars \cup {"-", "."}))>>)),
                 Opt(Lit(<<"(">>)),
                 Rep(Set(Digits), 3, 3),
                 Opt(Lit(<<")">>)),
                 Opt(Set(SpaceChars \cup {"-", "."})),
                 Rep(Set(Digits), 3, 3),
                 Opt(Set(SpaceChars \cup {"-", "."})),
                 Rep(Set(Digits), 4, 4)>>))>>),
           {"i"}, 1)), LAMBDA labeled :
    IF labeled.ok THEN labeled.g[1]
    ELSE Let(Match(text, RegExp(Cat(<<
               Opt(Cat(<<
                   Opt(Lit(<<"+">>)),
                   Rep(Set(Digits), 1, 3),
                   Opt(Set(SpaceChars \cup {"-", "."}))>>)),
               Opt(Lit(<<"(">>)),
               Rep(Set(Digits), 3, 3),
               Opt(Lit(<<")">>)),
               Opt(Set(SpaceChars \cup {"-", "."})),
               Rep(Set(Digits), 3, 3),
               Opt(Set(SpaceChars \cup {"-", "."})),
               Rep(Set(Digits), 4, 4)>>),
             {}, 0)), LAMBDA match :
      IF match.ok THEN match.all ELSE Null))

extractAddress(text) ==
  Let(extractSection(text, contactHeaders), LAMBDA contactSection :
    IF contactSection = <<>> THEN Null
    ELSE Let(Match(contactSection, RegExp(Cat(<<
               Alt(<<
                 Lit(<<"a", "d", "d", "r", "e", "s", "s">>),
                 Lit(<<"l", "o", "c", "a", "t", "i", "o", "n">>),
                 Lit(<<"r", "e", "s", "i", "d", "e", "n", "c", "e">>)>>),
               Star(Set(SpaceChars)),
               Opt(Lit(<<":">>)),
               Star(Set(SpaceChars)),
               Grp(1, Plus(NSet({"\n"})))>>),
             {"i"}, 1)), LAMBDA match :
      IF match.ok THEN Trim(match.g[1])
      ELSE Let(Match(contactSection, RegExp(Cat(<<
                 Grp(1, Plus(Set(UpperSet \cup LowerSet \cup SpaceChars))),
                 Lit(<<",">>),
                 Star(Set(SpaceChars)),
                 Grp(2, Rep(Set(UpperSet \cup LowerSet), 2, 2)),
                 Star(Set(SpaceChars)),
                 Grp(3, Cat(<<
                     Rep(Set(Digits), 5, 5),
                     Opt(Cat(<<Lit(<<"-">>), Rep(Set(Digits), 4, 4)>>))>>))>>),
               {}, 3)), LAMBDA cityStateMatch :
        IF cityStateMatch.ok THEN Trim(cityStateMatch.all) ELSE Null)))

extractPattern(text, regex) ==
  Let(Match(text, regex), LAMBDA match :
    IF match.ok THEN Trim(match.g[1]) ELSE <<>>)

(***************************************************************************)
(* extractEducationLevel and extractEducation.                             *)
(***************************************************************************)
educationLevelPatterns ==
  <<[level |-> <<"I", "n", "t", "e", "r", "m", "e", "d", "i", "a", "t", "e">>,
     pattern |-> RegExp(Cat(<<
                WB,
                Alt(<<
                  Lit(<<"i", "n", "t", "e", "r", "m", "e", "d", "i", "a", "t", "e">>),
                  Lit(<<"h", "i", "g", "h", " ", "s", "c", "h", "o", "o", "l">>),
                  Lit(<<"s", "e", "c", "o", "n", "d", "a", "r", "y">>),
                  Lit(<<"1", "2", "t", "h">>),
                  Lit(<<"h", "s", "c">>)>>),
                WB>>),
              {"i"}, 0)],
    [level |-> <<"G", "r", "a", "d", "u", "a", "t", "e">>,
     pattern |-> RegExp(Cat(<<
                WB,
                Alt(<<
                  Lit(<<"g", "r", "a", "d", "u", "a", "t", "e">>),
                  Cat(<<
                    Lit(<<"b", "a", "c", "h", "e", "l", "o", "r">>),
                    Opt(Lit(<<"'">>)),
                    Lit(<<"s">>)>>),
                  Lit(<<"b", "a", "c", "h", "e", "l", "o", "r", "s">>),
                  Cat(<<Lit(<<"b">>), Opt(Lit(<<".">>)), Lit(<<"t", "e", "c", "h">>)>>),
                  Cat(<<Lit(<<"b">>), Opt(Lit(<<".">>)), Lit(<<"e">>)>>),
                  Cat(<<Lit(<<"b">>), Opt(Lit(<<".">>)), Lit(<<"s", "c">>)>>),
                  Cat(<<Lit(<<"b">>), Opt(Lit(<<".">>)), Lit(<<"a">>)>>),
                  Cat(<<Lit(<<"b">>), Opt(Lit(<<".">>)), Lit(<<"c", "o", "m">>)>>)>>),
                WB>>),
              {"i"}, 0)],
    [level |-> <<"P", "o", "s", "t", " ", "G", "r", "a", "d", "u", "a", "t", "e">>,
     pattern |-> RegExp(Cat(<<
                WB,
                Alt(<<
                  Cat(<<
                    Lit(<<"p", "o", "s", "t">>),
                    Opt(Set(SpaceChars \cup {"-"})),
                    Lit(<<"g", "r", "a", "d", "u", "a", "t", "e">>)>>),
                  Cat(<<Lit(<<"m", "a", "s", "t", "e", "r">>), Opt(Lit(<<"'">>)), Lit(<<"s">>)>>),
                  Lit(<<"m", "a", "s", "t", "e", "r", "s">>),
                  Cat(<<Lit(<<"m">>), Opt(Lit(<<".">>)), Lit(<<"t", "e", "c", "h">>)>>),
                  Cat(<<Lit(<<"m">>), Opt(Lit(<<".">>)), Lit(<<"e">>)>>),
                  Cat(<<Lit(<<"m">>), Opt(Lit(<<".">>)), Lit(<<"s", "c">>)>>),
                  Cat(<<Lit(<<"m">>), Opt(Lit(<<".">>)), Lit(<<"a">>)>>),
                  Cat(<<Lit(<<"m">>), Opt(Lit(<<".">>)), Lit(<<"c", "o", "m">>)>>),
                  Lit(<<"m", "b", "a">>),
                  Lit(<<"p", "g", "d", "m">>),
                  Cat(<<Lit(<<"p", "h">>), Opt(Lit(<<".">>)), Lit(<<"d">>)>>),
                  Lit(<<"d", "o", "c", "t", "o", "r", "a", "t", "e">>)>>),
                WB>>),
              {"i"}, 0)]>>
\* the first level whose pattern matches s, or ''
\* LevelOf with the last tier that matches in place of the first
LevelOfLastTier(s) ==
  Let({k \in 1..Len(educationLevelPatterns) : Test(educationLevelPatterns[k].pattern, s)},
      LAMBDA found :
    IF found = {} THEN <<>>
    ELSE educationLevelPatterns[CHOOSE k \in found : \A j \in found : k >= j].level)
LevelOf(s) ==
  Let({k \in 1..Len(educationLevelPatterns) : Test(educationLevelPatterns[k].pattern, s)},
      LAMBDA found :
    IF found = {} THEN <<>>
    ELSE educationLevelPatterns[CHOOSE k \in found : \A j \in found : k <= j].level)
\* extractEducationLevel with "Graduate" for a text that names no level
extractEducationLevelDefault(text) ==
  Let(LevelOf(text), LAMBDA level : IF level # <<>> THEN level ELSE <<"G", "r", "a", "d", "u", "a", "t", "e">>)
extractEducationLevel(text) ==
  Let(LevelOf(text), LAMBDA level :
    IF level # <<>> THEN level
    ELSE Let(extractSection(text, <<<<"e", "d", "u", "c", "a", "t", "i", "o", "n">>, <<"a", "c", "a", "d", "e", "m", "i", "c", " ", "b", "a", "c", "k", "g", "r", "o", "u", "n", "d">>,
                                    <<"a", "c", "a", "d", "e", "m", "i", "c", " ", "q", "u", "a", "l", "i", "f", "i", "c", "a", "t", "i", "o", "n", "s">>>>),
             LAMBDA educationSection :
      IF educationSection # <<>> THEN LevelOf(educationSection) ELSE <<>>))

\* the first line of lines that names an institution, trimmed, or ''
InstitutionLine(lines) ==
  Let({k \in 1..Len(lines) :
         /\ ~Test(RegExp(Alt(<<
                    Lit(<<"d", "e", "g", "r", "e", "e">>),
                    Lit(<<"y", "e", "a", "r">>),
                    Lit(<<"g", "p", "a">>),
                    Lit(<<"g", "r", "a", "d", "e">>),
                    Lit(<<"s", "c", "o", "r", "e">>),
                    Lit(<<"m", "a", "j", "o", "r">>),
                    Lit(<<"f", "i", "e", "l", "d">>),
                    Lit(<<"s", "p", "e", "c", "i", "a", "l", "i", "z", "a", "t", "i", "o", "n">>)>>),
                  {"i"}, 0), lines[k])
         /\ Test(RegExp(Grp(1, Cat(<<
                      Set(UpperSet),
                      Plus(Set(UpperSet \cup LowerSet \cup SpaceChars \cup {"&", ",", "'", ".", "-"})),
                      Alt(<<
                        Lit(<<"U", "n", "i", "v", "e", "r", "s", "i", "t", "y">>),
                        Lit(<<"C", "o", "l", "l", "e", "g", "e">>),
                        Lit(<<"I", "n", "s", "t", "i", "t", "u", "t", "e">>),
                        Lit(<<"S", "c", "h", "o", "o", "l">>),
                        Lit(<<"A", "c", "a", "d", "e", "m", "y">>),
                        Lit(<<"C", "e", "n", "t", "e", "r">>),
                        Lit(<<"C", "e", "n", "t", "r", "e">>)>>)>>)),
                  {}, 1), lines[k])},
      LAMBDA found :
    IF found = {} THEN <<>>
    ELSE Trim(Match(lines[CHOOSE k \in found : \A j \in found : k <= j],
                    RegExp(Grp(1, Cat(<<
                                 Set(UpperSet),
                                 Plus(Set(UpperSet \cup LowerSet \cup SpaceChars \cup {"&", ",", "'", ".", "-"})),
                                 Alt(<<
                                   Lit(<<"U", "n", "i", "v", "e", "r", "s", "i", "t", "y">>),
                                   Lit(<<"C", "o", "l", "l", "e", "g", "e">>),
                                   Lit(<<"I", "n", "s", "t", "i", "t", "u", "t", "e">>),
                                   Lit(<<"S", "c", "h", "o", "o", "l">>),
                                   Lit(<<"A", "c", "a", "d", "e", "m", "y">>),
                                   Lit(<<"C", "e", "n", "t", "e", "r">>),
                                   Lit(<<"C", "e", "n", "t", "r", "e">>)>>)>>)),
                             {}, 1)).g[1]))

\* extractEducation without the college name standing in for the university
extractEducationNoMirror(text, year) ==
  Let(extractSection(text, <<<<"e", "d", "u", "c", "a", "t", "i", "o", "n">>, <<"a", "c", "a", "d", "e", "m", "i", "c", " ", "b", "a", "c", "k", "g", "r", "o", "u", "n", "d">>,
        <<"a", "c", "a", "d", "e", "m", "i", "c", " ", "q", "u", "a", "l", "i", "f", "i", "c", "a", "t", "i", "o", "n", "s">>, <<"e", "d", "u", "c", "a", "t", "i", "o", "n", "a", "l", " ", "q", "u", "a", "l", "i", "f", "i", "c", "a", "t", "i", "o", "n", "s">>,
        <<"a", "c", "a", "d", "e", "m", "i", "c", " ", "h", "i", "s", "t", "o", "r", "y">>, <<"a", "c", "a", "d", "e", "m", "i", "c", " ", "r", "e", "c", "o", "r", "d">>, <<"a", "c", "a", "d", "e", "m", "i", "c", " ", "p", "r", "o", "f", "i", "l", "e">>>>),
      LAMBDA educationSection :
  IF educationSection = <<>>
  THEN [collegeName |-> <<>>, degree |-> <<>>, universityName |-> <<>>,
        specialization |-> <<>>, graduationYear |-> <<>>, cgpa |-> <<>>,
        startYear |-> <<>>, endYear |-> <<>>, location |-> <<>>]
  ELSE
  Let([collegeName |-> extractPattern(educationSection, RegExp(Cat(<<
             Alt(<<
               Lit(<<"c", "o", "l", "l", "e", "g", "e">>),
               Lit(<<"s", "c", "h", "o", "o", "l">>),
               Lit(<<"i", "n", "s", "t", "i", "t", "u", "t", "e">>),
               Lit(<<"i", "n", "s", "t", "i", "t", "u", "t", "i", "o", "n">>)>>),
             Star(Set(SpaceChars)),
             Opt(Lit(<<":">>)),
             Star(Set(SpaceChars)),
             Grp(1, Plus(NSet({"\n", ","})))>>),
           {"i"}, 1)),
       degree |-> extractPattern(educationSection, RegExp(Cat(<<
                  Alt(<<
                    Lit(<<"d", "e", "g", "r", "e", "e">>),
                    Lit(<<"q", "u", "a", "l", "i", "f", "i", "c", "a", "t", "i", "o", "n">>),
                    Lit(<<"p", "r", "o", "g", "r", "a", "m">>),
                    Lit(<<"c", "o", "u", "r", "s", "e">>),
                    Lit(<<"d", "i", "p", "l", "o", "m", "a">>)>>),
                  Star(Set(SpaceChars)),
                  Opt(Lit(<<":">>)),
                  Star(Set(SpaceChars)),
                  Grp(1, Plus(NSet({"\n", ","})))>>),
                {"i"}, 1)),
       universityName |-> extractPattern(educationSection, RegExp(Cat(<<
                  Alt(<<
                    Lit(<<"u", "n", "i", "v", "e", "r", "s", "i", "t", "y">>),
                    Lit(<<"i", "n", "s", "t", "i", "t", "u", "t", "e">>),
                    Lit(<<"a", "c", "a", "d", "e", "m", "y">>),
                    Lit(<<"a", "l", "m", "a", " ", "m", "a", "t", "e", "r">>)>>),
                  Star(Set(SpaceChars)),
                  Opt(Lit(<<":">>)),
                  Star(Set(SpaceChars)),
                  Grp(1, Plus(NSet({"\n", ","})))>>),
                {"i"}, 1)),
       specialization |-> extractPattern(educationSection, RegExp(Cat(<<
                  Alt(<<
                    Lit(<<"s", "p", "e", "c", "i", "a", "l", "i", "z", "a", "t", "i", "o", "n">>),
                    Lit(<<"m", "a", "j", "o", "r">>),
                    Lit(<<"f", "i", "e", "l", "d">>),
                    Lit(<<"c", "o", "n", "c", "e", "n", "t", "r", "a", "t", "i", "o", "n">>),
                    Lit(<<"s", "u", "b", "j", "e", "c", "t">>),
                    Lit(<<"d", "i", "s", "c", "i", "p", "l", "i", "n", "e">>),
                    Lit(<<"f", "o", "c", "u", "s">>)>>),
                  Star(Set(SpaceChars)),
                  Opt(Lit(<<":">>)),
                  Star(Set(SpaceChars)),
                  Grp(1, Plus(NSet({"\n", ","})))>>),
                {"i"}, 1)),
       graduationYear |-> extractPattern(educationSection, RegExp(Cat(<<
                  Alt(<<
                    Lit(<<"y", "e", "a", "r">>),
                    Lit(<<"g", "r", "a", "d", "u", "a", "t", "e", "d">>),
                    Lit(<<"g", "r", "a", "d", "u", "a", "t", "i", "o", "n">>),
                    Lit(<<"c", "o", "m", "p", "l", "e", "t", "e", "d">>),
                    Lit(<<"c", "l", "a", "s", "s", " ", "o", "f">>),
                    Lit(<<"c", "o", "m", "p", "l", "e", "t", "i", "o", "n">>),
                    Lit(<<"f", "i", "n", "i", "s", "h", "e", "d">>)>>),
                  Star(Set(SpaceChars)),
                  Opt(Lit(<<":">>)),
                  Star(Set(SpaceChars)),
                  Grp(1, Rep(Set(Digits), 4, 4))>>),
                {"i"}, 1)),
       cgpa |-> extractPattern(educationSection, RegExp(Cat(<<
                  Alt(<<
                    Lit(<<"c", "g", "p", "a">>),
                    Lit(<<"g", "p", "a">>),
                    Lit(<<"g", "r", "a", "d", "e">>),
                    Lit(<<"s", "c", "o", "r", "e">>),
                    Lit(<<"p", "e", "r", "c", "e", "n", "t", "a", "g", "e">>),
                    Lit(<<"m", "a", "r", "k", "s">>)>>),
                  Star(Set(SpaceChars)),
                  Opt(Lit(<<":">>)),
                  Star(Set(SpaceChars)),
                  Grp(1, Cat(<<Plus(Set(Digits \cup {"."})), Opt(Lit(<<"%">>))>>))>>),
                {"i"}, 1)),
       dateRangeMatch |-> Match(educationSection, RegExp(Cat(<<
                  Grp(1, Cat(<<Alt(<<Lit(<<"1", "9">>), Lit(<<"2", "0">>)>>), Rep(Set(Digits), 2, 2)>>)),
                  Star(Set(SpaceChars)),
                  Alt(<<Lit(<<"-">>), Lit(<<"t", "o">>), Lit(<<EnDash>>), Lit(<<EmDash>>)>>),
                  Star(Set(SpaceChars)),
                  Grp(2, Alt(<<
                      Cat(<<Alt(<<Lit(<<"1", "9">>), Lit(<<"2", "0">>)>>), Rep(Set(Digits), 2, 2)>>),
                      Lit(<<"p", "r", "e", "s", "e", "n", "t">>),
                      Lit(<<"c", "u", "r", "r", "e", "n", "t">>),
                      Lit(<<"n", "o", "w">>)>>))>>),
                {"i"}, 2)),
       location |-> extractPattern(educationSection, RegExp(Cat(<<
                  Alt(<<
                    Lit(<<"l", "o", "c", "a", "t", "i", "o", "n">>),
                    Lit(<<"c", "i", "t", "y">>),
                    Lit(<<"p", "l", "a", "c", "e">>),
                    Lit(<<"c", "a", "m", "p", "u", "s">>)>>),
                  Star(Set(SpaceChars)),
                  Opt(Lit(<<":">>)),
                  Star(Set(SpaceChars)),
                  Grp(1, Plus(NSet({"\n", ","})))>>),
                {"i"}, 1))],
      LAMBDA labeled :
  Let([endYear |->
         IF ~labeled.dateRangeMatch.ok THEN <<>>
         ELSE IF ToLowerCase(labeled.dateRangeMatch.g[2]) \in {<<"p", "r", "e", "s", "e", "n", "t">>, <<"c", "u", "r", "r", "e", "n", "t">>, <<"n", "o", "w">>}
         THEN NumberToString(year) ELSE labeled.dateRangeMatch.g[2],
       locationMatch |->
         IF labeled.location = <<>>
         THEN Match(educationSection, RegExp(Grp(1, Alt(<<
                      Cat(<<
                        Set(UpperSet),
                        Plus(Set(LowerSet \cup UpperSet \cup SpaceChars)),
                        Lit(<<",">>),
                        Star(Set(SpaceChars)),
                        Set(UpperSet),
                        Plus(Set(LowerSet \cup UpperSet \cup SpaceChars))>>),
                      Cat(<<
                        Set(UpperSet),
                        Plus(Set(LowerSet \cup UpperSet \cup SpaceChars)),
                        Star(Set(SpaceChars)),
                        Lit(<<"(">>),
                        Set(UpperSet),
                        Plus(Set(LowerSet \cup UpperSet \cup SpaceChars)),
                        Lit(<<")">>)>>)>>)),
                  {}, 1))
         ELSE NoMatch,
       universityName |->
         IF labeled.universityName = <<>> /\ labeled.collegeName # <<>>
         THEN <<>> ELSE labeled.universityName,
       degreeMatch |->
         IF labeled.degree = <<>>
         THEN Match(educationSection, RegExp(Cat(<<
                    WB,
                    Grp(1, Alt(<<
                        Cat(<<Lit(<<"B">>), Opt(Lit(<<".">>)), Lit(<<"T", "e", "c", "h">>)>>),
                        Cat(<<Lit(<<"M">>), Opt(Lit(<<".">>)), Lit(<<"T", "e", "c", "h">>)>>),
                        Cat(<<Lit(<<"B">>), Opt(Lit(<<".">>)), Lit(<<"E">>)>>),
                        Cat(<<Lit(<<"M">>), Opt(Lit(<<".">>)), Lit(<<"E">>)>>),
                        Cat(<<Lit(<<"B">>), Opt(Lit(<<".">>)), Lit(<<"S">>)>>),
                        Cat(<<Lit(<<"M">>), Opt(Lit(<<".">>)), Lit(<<"S">>)>>),
                        Cat(<<Lit(<<"P", "h">>), Opt(Lit(<<".">>)), Lit(<<"D">>)>>),
                        Cat(<<Lit(<<"B">>), Opt(Lit(<<".">>)), Lit(<<"A">>)>>),
                        Cat(<<Lit(<<"M">>), Opt(Lit(<<".">>)), Lit(<<"A">>)>>),
                        Lit(<<"M", "B", "A">>),
                        Lit(<<"P", "G", "D", "M">>),
                        Lit(<<"B", "a", "c", "h", "e", "l", "o", "r">>),
                        Lit(<<"M", "a", "s", "t", "e", "r">>),
                        Lit(<<"D", "o", "c", "t", "o", "r", "a", "t", "e">>),
                        Lit(<<"B", "S", "c">>),
                        Lit(<<"M", "S", "c">>),
                        Lit(<<"B", "B", "A">>),
                        Lit(<<"B", "C", "A">>),
                        Lit(<<"M", "C", "A">>),
                        Lit(<<"L", "L", "B">>),
                        Lit(<<"L", "L", "M">>),
                        Lit(<<"M", "D">>),
                        Lit(<<"M", "B", "B", "S">>)>>)),
                    WB,
                    Star(NSet({"\n", ","})),
                    Opt(Alt(<<Lit(<<"i", "n">>), Lit(<<"o", "f">>)>>)),
                    Star(Set(SpaceChars)),
                    Opt(Grp(2, Plus(NSet({"\n", ","}))))>>),
                  {"i"}, 2))
         ELSE NoMatch],
      LAMBDA found :
    [collegeName |-> labeled.collegeName,
     degree |-> IF found.degreeMatch.ok THEN Trim(found.degreeMatch.g[1]) ELSE labeled.degree,
     universityName |->
       IF found.universityName = <<>> /\ labeled.collegeName = <<>>
       THEN InstitutionLine(SplitLines(educationSection)) ELSE found.universityName,
     specialization |->
       IF found.degreeMatch.ok /\ found.degreeMatch.g[2] # <<>>
       THEN Trim(found.degreeMatch.g[2]) ELSE labeled.specialization,
     graduationYear |->
       IF labeled.graduationYear # <<>> THEN labeled.graduationYear
       ELSE IF labeled.dateRangeMatch.ok /\ found.endYear # NumberToString(year)
       THEN found.endYear
       ELSE Let(Match(educationSection, RegExp(Cat(<<
                  WB,
                  Grp(1, Alt(<<
                      Cat(<<Lit(<<"2", "0">>), Rep(Set(Digits), 2, 2)>>),
                      Cat(<<Lit(<<"1", "9">>), Rep(Set(Digits), 2, 2)>>)>>)),
                  WB>>),
                {}, 1)),
                LAMBDA yearMatch : IF yearMatch.ok THEN yearMatch.g[1] ELSE <<>>),
     cgpa |-> labeled.cgpa,
     startYear |-> IF labeled.dateRangeMatch.ok THEN labeled.dateRangeMatch.g[1] ELSE <<>>,
     endYear |-> found.endYear,
     location |->
       IF found.locationMatch.ok THEN Trim(found.locationMatch.g[1]) ELSE labeled.location
    ])))
extractEducation(text, year) ==
  Let(extractSection(text, <<<<"e", "d", "u", "c", "a", "t", "i", "o", "n">>, <<"a", "c", "a", "d", "e", "m", "i", "c", " ", "b", "a", "c", "k", "g", "r", "o", "u", "n", "d">>,
        <<"a", "c", "a", "d", "e", "m", "i", "c", " ", "q", "u", "a", "l", "i", "f", "i", "c", "a", "t", "i", "o", "n", "s">>, <<"e", "d", "u", "c", "a", "t", "i", "o", "n", "a", "l", " ", "q", "u", "a", "l", "i", "f", "i", "c", "a", "t", "i", "o", "n", "s">>,
        <<"a", "c", "a", "d", "e", "m", "i", "c", " ", "h", "i", "s", "t", "o", "r", "y">>, <<"a", "c", "a", "d", "e", "m", "i", "c", " ", "r", "e", "c", "o", "r", "d">>, <<"a", "c", "a", "d", "e", "m", "i", "c", " ", "p", "r", "o", "f", "i", "l", "e">>>>),
      LAMBDA educationSection :
  IF educationSection = <<>>
  THEN [collegeName |-> <<>>, degree |-> <<>>, universityName |-> <<>>,
        specialization |-> <<>>, graduationYear |-> <<>>, cgpa |-> <<>>,
        startYear |-> <<>>, endYear |-> <<>>, location |-> <<>>]
  ELSE
  Let([collegeName |-> extractPattern(educationSection, RegExp(Cat(<<
             Alt(<<
               Lit(<<"c", "o", "l", "l", "e", "g", "e">>),
               Lit(<<"s", "c", "h", "o", "o", "l">>),
               Lit(<<"i", "n", "s", "t", "i", "t", "u", "t", "e">>),
               Lit(<<"i", "n", "s", "t", "i", "t", "u", "t", "i", "o", "n">>)>>),
             Star(Set(SpaceChars)),
             Opt(Lit(<<":">>)),
             Star(Set(SpaceChars)),
             Grp(1, Plus(NSet({"\n", ","})))>>),
           {"i"}, 1)),
       degree |-> extractPattern(educationSection, RegExp(Cat(<<
                  Alt(<<
                    Lit(<<"d", "e", "g", "r", "e", "e">>),
                    Lit(<<"q", "u", "a", "l", "i", "f", "i", "c", "a", "t", "i", "o", "n">>),
                    Lit(<<"p", "r", "o", "g", "r", "a", "m">>),
                    Lit(<<"c", "o", "u", "r", "s", "e">>),
                    Lit(<<"d", "i", "p", "l", "o", "m", "a">>)>>),
                  Star(Set(SpaceChars)),
                  Opt(Lit(<<":">>)),
                  Star(Set(SpaceChars)),
                  Grp(1, Plus(NSet({"\n", ","})))>>),
                {"i"}, 1)),
       universityName |-> extractPattern(educationSection, RegExp(Cat(<<
                  Alt(<<
                    Lit(<<"u", "n", "i", "v", "e", "r", "s", "i", "t", "y">>),
                    Lit(<<"i", "n", "s", "t", "i", "t", "u", "t", "e">>),
                    Lit(<<"a", "c", "a", "d", "e", "m", "y">>),
                    Lit(<<"a", "l", "m", "a", " ", "m", "a", "t", "e", "r">>)>>),
                  Star(Set(SpaceChars)),
                  Opt(Lit(<<":">>)),
                  Star(Set(SpaceChars)),
                  Grp(1, Plus(NSet({"\n", ","})))>>),
                {"i"}, 1)),
       specialization |-> extractPattern(educationSection, RegExp(Cat(<<
                  Alt(<<
                    Lit(<<"s", "p", "e", "c", "i", "a", "l", "i", "z", "a", "t", "i", "o", "n">>),
                    Lit(<<"m", "a", "j", "o", "r">>),
                    Lit(<<"f", "i", "e", "l", "d">>),
                    Lit(<<"c", "o", "n", "c", "e", "n", "t", "r", "a", "t", "i", "o", "n">>),
                    Lit(<<"s", "u", "b", "j", "e", "c", "t">>),
                    Lit(<<"d", "i", "s", "c", "i", "p", "l", "i", "n", "e">>),
                    Lit(<<"f", "o", "c", "u", "s">>)>>),
                  Star(Set(SpaceChars)),
                  Opt(Lit(<<":">>)),
                  Star(Set(SpaceChars)),
                  Grp(1, Plus(NSet({"\n", ","})))>>),
                {"i"}, 1)),
       graduationYear |-> extractPattern(educationSection, RegExp(Cat(<<
                  Alt(<<
                    Lit(<<"y", "e", "a", "r">>),
                    Lit(<<"g", "r", "a", "d", "u", "a", "t", "e", "d">>),
                    Lit(<<"g", "r", "a", "d", "u", "a", "t", "i", "o", "n">>),
                    Lit(<<"c", "o", "m", "p", "l", "e", "t", "e", "d">>),
                    Lit(<<"c", "l", "a", "s", "s", " ", "o", "f">>),
                    Lit(<<"c", "o", "m", "p", "l", "e", "t", "i", "o", "n">>),
                    Lit(<<"f", "i", "n", "i", "s", "h", "e", "d">>)>>),
                  Star(Set(SpaceChars)),
                  Opt(Lit(<<":">>)),
                  Star(Set(SpaceChars)),
                  Grp(1, Rep(Set(Digits), 4, 4))>>),
                {"i"}, 1)),
       cgpa |-> extractPattern(educationSection, RegExp(Cat(<<
                  Alt(<<
                    Lit(<<"c", "g", "p", "a">>),
                    Lit(<<"g", "p", "a">>),
                    Lit(<<"g", "r", "a", "d", "e">>),
                    Lit(<<"s", "c", "o", "r", "e">>),
                    Lit(<<"p", "e", "r", "c", "e", "n", "t", "a", "g", "e">>),
                    Lit(<<"m", "a", "r", "k", "s">>)>>),
                  Star(Set(SpaceChars)),
                  Opt(Lit(<<":">>)),
                  Star(Set(SpaceChars)),
                  Grp(1, Cat(<<Plus(Set(Digits \cup {"."})), Opt(Lit(<<"%">>))>>))>>),
                {"i"}, 1)),
       dateRangeMatch |-> Match(educationSection, RegExp(Cat(<<
                  Grp(1, Cat(<<Alt(<<Lit(<<"1", "9">>), Lit(<<"2", "0">>)>>), Rep(Set(Digits), 2, 2)>>)),
                  Star(Set(SpaceChars)),
                  Alt(<<Lit(<<"-">>), Lit(<<"t", "o">>), Lit(<<EnDash>>), Lit(<<EmDash>>)>>),
                  Star(Set(SpaceChars)),
                  Grp(2, Alt(<<
                      Cat(<<Alt(<<Lit(<<"1", "9">>), Lit(<<"2", "0">>)>>), Rep(Set(Digits), 2, 2)>>),
                      Lit(<<"p", "r", "e", "s", "e", "n", "t">>),
                      Lit(<<"c", "u", "r", "r", "e", "n", "t">>),
                      Lit(<<"n", "o", "w">>)>>))>>),
                {"i"}, 2)),
       location |-> extractPattern(educationSection, RegExp(Cat(<<
                  Alt(<<
                    Lit(<<"l", "o", "c", "a", "t", "i", "o", "n">>),
                    Lit(<<"c", "i", "t", "y">>),
                    Lit(<<"p", "l", "a", "c", "e">>),
                    Lit(<<"c", "a", "m", "p", "u", "s">>)>>),
                  Star(Set(SpaceChars)),
                  Opt(Lit(<<":">>)),
                  Star(Set(SpaceChars)),
                  Grp(1, Plus(NSet({"\n", ","})))>>),
                {"i"}, 1))],
      LAMBDA labeled :
  Let([endYear |->
         IF ~labeled.dateRangeMatch.ok THEN <<>>
         ELSE IF ToLowerCase(labeled.dateRangeMatch.g[2]) \in {<<"p", "r", "e", "s", "e", "n", "t">>, <<"c", "u", "r", "r", "e", "n", "t">>, <<"n", "o", "w">>}
         THEN NumberToString(year) ELSE labeled.dateRangeMatch.g[2],
       locationMatch |->
         IF labeled.location = <<>>
         THEN Match(educationSection, RegExp(Grp(1, Alt(<<
                      Cat(<<
                        Set(UpperSet),
                        Plus(Set(LowerSet \cup UpperSet \cup SpaceChars)),
                        Lit(<<",">>),
                        Star(Set(SpaceChars)),
                        Set(UpperSet),
                        Plus(Set(LowerSet \cup UpperSet \cup SpaceChars))>>),
                      Cat(<<
                        Set(UpperSet),
                        Plus(Set(LowerSet \cup UpperSet \cup SpaceChars)),
                        Star(Set(SpaceChars)),
                        Lit(<<"(">>),
                        Set(UpperSet),
                        Plus(Set(LowerSet \cup UpperSet \cup SpaceChars)),
                        Lit(<<")">>)>>)>>)),
                  {}, 1))
         ELSE NoMatch,
       universityName |->
         IF labeled.universityName = <<>> /\ labeled.collegeName # <<>>
         THEN labeled.collegeName ELSE labeled.universityName,
       degreeMatch |->
         IF labeled.degree = <<>>
         THEN Match(educationSection, RegExp(Cat(<<
                    WB,
                    Grp(1, Alt(<<
                        Cat(<<Lit(<<"B">>), Opt(Lit(<<".">>)), Lit(<<"T", "e", "c", "h">>)>>),
                        Cat(<<Lit(<<"M">>), Opt(Lit(<<".">>)), Lit(<<"T", "e", "c", "h">>)>>),
                        Cat(<<Lit(<<"B">>), Opt(Lit(<<".">>)), Lit(<<"E">>)>>),
                        Cat(<<Lit(<<"M">>), Opt(Lit(<<".">>)), Lit(<<"E">>)>>),
                        Cat(<<Lit(<<"B">>), Opt(Lit(<<".">>)), Lit(<<"S">>)>>),
                        Cat(<<Lit(<<"M">>), Opt(Lit(<<".">>)), Lit(<<"S">>)>>),
                        Cat(<<Lit(<<"P", "h">>), Opt(Lit(<<".">>)), Lit(<<"D">>)>>),
                        Cat(<<Lit(<<"B">>), Opt(Lit(<<".">>)), Lit(<<"A">>)>>),
                        Cat(<<Lit(<<"M">>), Opt(Lit(<<".">>)), Lit(<<"A">>)>>),
                        Lit(<<"M", "B", "A">>),
                        Lit(<<"P", "G", "D", "M">>),
                        Lit(<<"B", "a", "c", "h", "e", "l", "o", "r">>),
                        Lit(<<"M", "a", "s", "t", "e", "r">>),
                        Lit(<<"D", "o", "c", "t", "o", "r", "a", "t", "e">>),
                        Lit(<<"B", "S", "c">>),
                        Lit(<<"M", "S", "c">>),
                        Lit(<<"B", "B", "A">>),
                        Lit(<<"B", "C", "A">>),
                        Lit(<<"M", "C", "A">>),
                        Lit(<<"L", "L", "B">>),
                        Lit(<<"L", "L", "M">>),
                        Lit(<<"M", "D">>),
                        Lit(<<"M", "B", "B", "S">>)>>)),
                    WB,
                    Star(NSet({"\n", ","})),
                    Opt(Alt(<<Lit(<<"i", "n">>), Lit(<<"o", "f">>)>>)),
                    Star(Set(SpaceChars)),
                    Opt(Grp(2, Plus(NSet({"\n", ","}))))>>),
                  {"i"}, 2))
         ELSE NoMatch],
      LAMBDA found :
    [collegeName |-> labeled.collegeName,
     degree |-> IF found.degreeMatch.ok THEN Trim(found.degreeMatch.g[1]) ELSE labeled.degree,
     universityName |->
       IF found.universityName = <<>> /\ labeled.collegeName = <<>>
       THEN InstitutionLine(SplitLines(educationSection)) ELSE found.universityName,
     specialization |->
       IF found.degreeMatch.ok /\ found.degreeMatch.g[2] # <<>>
       THEN Trim(found.degreeMatch.g[2]) ELSE labeled.specialization,
     graduationYear |->
       IF labeled.graduationYear # <<>> THEN labeled.graduationYear
       ELSE IF labeled.dateRangeMatch.ok /\ found.endYear # NumberToString(year)
       THEN found.endYear
       ELSE Let(Match(educationSection, RegExp(Cat(<<
                  WB,
                  Grp(1, Alt(<<
                      Cat(<<Lit(<<"2", "0">>), Rep(Set(Digits), 2, 2)>>),
                      Cat(<<Lit(<<"1", "9">>), Rep(Set(Digits), 2, 2)>>)>>)),
                  WB>>),
                {}, 1)),
                LAMBDA yearMatch : IF yearMatch.ok THEN yearMatch.g[1] ELSE <<>>),
     cgpa |-> labeled.cgpa,
     startYear |-> IF labeled.dateRangeMatch.ok THEN labeled.dateRangeMatch.g[1] ELSE <<>>,
     endYear |-> found.endYear,
     location |->
       IF found.locationMatch.ok THEN Trim(found.locationMatch.g[1]) ELSE labeled.location
    ])))

(***************************************************************************)
(* extractDateRange, extractCertifications, calculateExperience.           *)
(***************************************************************************)
dateRangePatterns ==
  <<RegExp(Cat(<<
             Grp(1, Cat(<<Alt(<<Lit(<<"1", "9">>), Lit(<<"2", "0">>)>>), Rep(Set(Digits), 2, 2)>>)),
             Star(Set(SpaceChars)),
             Alt(<<Lit(<<"-">>), Lit(<<"t", "o">>), Lit(<<EnDash>>), Lit(<<EmDash>>)>>),
             Star(Set(SpaceChars)),
             Grp(2, Alt(<<
                 Cat(<<Alt(<<Lit(<<"1", "9">>), Lit(<<"2", "0">>)>>), Rep(Set(Digits), 2, 2)>>),
                 Lit(<<"p", "r", "e", "s", "e", "n", "t">>),
                 Lit(<<"c", "u", "r", "r", "e", "n", "t">>),
                 Lit(<<"n", "o", "w">>)>>))>>),
           {"i"}, 2),
    RegExp(Cat(<<
               Grp(1, Cat(<<
                   Alt(<<
                     Lit(<<"J", "a", "n">>),
                     Lit(<<"F", "e", "b">>),
                     Lit(<<"M", "a", "r">>),
                     Lit(<<"A", "p", "r">>),
                     Lit(<<"M", "a", "y">>),
                     Lit(<<"J", "u", "n">>),
                     Lit(<<"J", "u", "l">>),
                     Lit(<<"A", "u", "g">>),
                     Lit(<<"S", "e", "p">>),
                     Lit(<<"O", "c", "t">>),
                     Lit(<<"N", "o", "v">>),
                     Lit(<<"D", "e", "c">>),
                     Lit(<<"J", "a", "n", "u", "a", "r", "y">>),
                     Lit(<<"F", "e", "b", "r", "u", "a", "r", "y">>),
                     Lit(<<"M", "a", "r", "c", "h">>),
                     Lit(<<"A", "p", "r", "i", "l">>),
                     Lit(<<"M", "a", "y">>),
                     Lit(<<"J", "u", "n", "e">>),
                     Lit(<<"J", "u", "l", "y">>),
                     Lit(<<"A", "u", "g", "u", "s", "t">>),
                     Lit(<<"S", "e", "p", "t", "e", "m", "b", "e", "r">>),
                     Lit(<<"O", "c", "t", "o", "b", "e", "r">>),
                     Lit(<<"N", "o", "v", "e", "m", "b", "e", "r">>),
                     Lit(<<"D", "e", "c", "e", "m", "b", "e", "r">>)>>),
                   Plus(Set(SpaceChars)),
                   Alt(<<Lit(<<"1", "9">>), Lit(<<"2", "0">>)>>),
                   Rep(Set(Digits), 2, 2)>>)),
               Star(Set(SpaceChars)),
               Alt(<<Lit(<<"-">>), Lit(<<"t", "o">>), Lit(<<EnDash>>), Lit(<<EmDash>>)>>),
               Star(Set(SpaceChars)),
               Grp(2, Alt(<<
                   Cat(<<
                     Alt(<<
                       Lit(<<"J", "a", "n">>),
                       Lit(<<"F", "e", "b">>),
                       Lit(<<"M", "a", "r">>),
                       Lit(<<"A", "p", "r">>),
                       Lit(<<"M", "a", "y">>),
                       Lit(<<"J", "u", "n">>),
                       Lit(<<"J", "u", "l">>),
                       Lit(<<"A", "u", "g">>),
                       Lit(<<"S", "e", "p">>),
                       Lit(<<"O", "c", "t">>),
                       Lit(<<"N", "o", "v">>),
                       Lit(<<"D", "e", "c">>),
                       Lit(<<"J", "a", "n", "u", "a", "r", "y">>),
                       Lit(<<"F", "e", "b", "r", "u", "a", "r", "y">>),
                       Lit(<<"M", "a", "r", "c", "h">>),
                       Lit(<<"A", "p", "r", "i", "l">>),
                       Lit(<<"M", "a", "y">>),
                       Lit(<<"J", "u", "n", "e">>),
                       Lit(<<"J", "u", "l", "y">>),
                       Lit(<<"A", "u", "g", "u", "s", "t">>),
                       Lit(<<"S", "e", "p", "t", "e", "m", "b", "e", "r">>),
                       Lit(<<"O", "c", "t", "o", "b", "e", "r">>),
                       Lit(<<"N", "o", "v", "e", "m", "b", "e", "r">>),
                       Lit(<<"D", "e", "c", "e", "m", "b", "e", "r">>)>>),
                     Plus(Set(SpaceChars)),
                     Alt(<<Lit(<<"1", "9">>), Lit(<<"2", "0">>)>>),
                     Rep(Set(Digits), 2, 2)>>),
                   Lit(<<"p", "r", "e", "s", "e", "n", "t">>),
                   Lit(<<"c", "u", "r", "r", "e", "n", "t">>),
                   Lit(<<"n", "o", "w">>)>>))>>),
             {"i"}, 2),
    RegExp(Cat(<<
               Grp(1, Cat(<<
                   Rep(Set(Digits), 1, 2),
                   Lit(<<"/">>),
                   Alt(<<Lit(<<"1", "9">>), Lit(<<"2", "0">>)>>),
                   Rep(Set(Digits), 2, 2)>>)),
               Star(Set(SpaceChars)),
               Alt(<<Lit(<<"-">>), Lit(<<"t", "o">>), Lit(<<EnDash>>), Lit(<<EmDash>>)>>),
               Star(Set(SpaceChars)),
               Grp(2, Alt(<<
                   Cat(<<
                     Rep(Set(Digits), 1, 2),
                     Lit(<<"/">>),
                     Alt(<<Lit(<<"1", "9">>), Lit(<<"2", "0">>)>>),
                     Rep(Set(Digits), 2, 2)>>),
                   Lit(<<"p", "r", "e", "s", "e", "n", "t">>),
                   Lit(<<"c", "u", "r", "r", "e", "n", "t">>),
                   Lit(<<"n", "o", "w">>)>>))>>),
             {"i"}, 2)>>
\* extractDateRange taking the pattern whose match starts first in the text
extractDateRangeLeftmost(text) ==
  Let({k \in 1..Len(dateRangePatterns) : Test(dateRangePatterns[k], text)}, LAMBDA found :
    IF found = {} THEN [startDate |-> <<>>, endDate |-> <<>>]
    ELSE Let(Match(text, dateRangePatterns[CHOOSE k \in found : \A j \in found :
                           Match(text, dateRangePatterns[k]).index
                             <= Match(text, dateRangePatterns[j]).index]),
             LAMBDA match :
      [startDate |-> match.g[1],
       endDate |-> IF ToLowerCase(match.g[2]) \in {<<"p", "r", "e", "s", "e", "n", "t">>, <<"c", "u", "r", "r", "e", "n", "t">>, <<"n", "o", "w">>}
                   THEN <<"P", "r", "e", "s", "e", "n", "t">> ELSE match.g[2]]))
extractDateRange(text) ==
  Let({k \in 1..Len(dateRangePatterns) : Test(dateRangePatterns[k], text)}, LAMBDA found :
    IF found = {} THEN [startDate |-> <<>>, endDate |-> <<>>]
    ELSE Let(Match(text, dateRangePatterns[CHOOSE k \in found : \A j \in found : k <= j]),
             LAMBDA match :
      [startDate |-> match.g[1],
       endDate |-> IF ToLowerCase(match.g[2]) \in {<<"p", "r", "e", "s", "e", "n", "t">>, <<"c", "u", "r", "r", "e", "n", "t">>, <<"n", "o", "w">>}
                   THEN <<"P", "r", "e", "s", "e", "n", "t">> ELSE match.g[2]]))

extractCertifications(text) ==
  Let(extractSection(text, <<<<"c", "e", "r", "t", "i", "f", "i", "c", "a", "t", "i", "o", "n", "s">>, <<"c", "e", "r", "t", "i", "f", "i", "c", "a", "t", "e", "s">>, <<"c", "r", "e", "d", "e", "n", "t", "i", "a", "l", "s">>>>),
      LAMBDA certificationsSection :
    IF certificationsSection # <<>>
    THEN Trim(ReplaceAll(certificationsSection, RegExp(Alt(<<
               Lit(<<"c", "e", "r", "t", "i", "f", "i", "c", "a", "t", "i", "o", "n", "s">>),
               Lit(<<"c", "e", "r", "t", "i", "f", "i", "c", "a", "t", "e", "s">>),
               Lit(<<"c", "r", "e", "d", "e", "n", "t", "i", "a", "l", "s">>)>>),
             {"i"}, 0), <<>>))
    ELSE <<>>)

\* YearSpan with an open range counted as no time at all
YearSpanOpenAsEmpty(yearRange, year) ==
  Let(Split(yearRange, RegExp(Cat(<<Star(Set(SpaceChars)), Lit(<<"-">>), Star(Set(SpaceChars))>>), {}, 0)), LAMBDA years :
    (IF ToLowerCase(years[2]) = <<"p", "r", "e", "s", "e", "n", "t">> THEN ParseInt(years[1]) ELSE ParseInt(years[2]))
    - ParseInt(years[1]))
\* endYear - startYear of one year range of the experience section
YearSpan(yearRange, year) ==
  Let(Split(yearRange, RegExp(Cat(<<Star(Set(SpaceChars)), Lit(<<"-">>), Star(Set(SpaceChars))>>), {}, 0)), LAMBDA years :
    (IF ToLowerCase(years[2]) = <<"p", "r", "e", "s", "e", "n", "t">> THEN year ELSE ParseInt(years[2]))
    - ParseInt(years[1]))
RECURSIVE TotalYears(_, _)
TotalYears(ranges, year) ==
  IF ranges = <<>> THEN 0
  ELSE YearSpan(Head(ranges), year) + TotalYears(Tail(ranges), year)
calculateExperience(text, year) ==
  Let(Match(text, RegExp(Cat(<<
             Grp(1, Plus(Set(Digits))),
             Opt(Lit(<<"+">>)),
             Star(Set(SpaceChars)),
             Alt(<<Lit(<<"y", "e", "a", "r", "s">>), Lit(<<"y", "r", "s">>)>>),
             Star(Set(SpaceChars)),
             Opt(Lit(<<"o", "f">>)),
             Star(Set(SpaceChars)),
             Lit(<<"e", "x", "p", "e", "r", "i", "e", "n", "c", "e">>)>>),
           {"i"}, 1)), LAMBDA match :
    IF match.ok THEN ParseInt(match.g[1])
    ELSE TotalYears(MatchAll(extractSection(text, <<<<"e", "x", "p", "e", "r", "i", "e", "n", "c", "e">>, <<"w", "o", "r", "k", " ", "e", "x", "p", "e", "r", "i", "e", "n", "c", "e">>,
                                                   <<"e", "m", "p", "l", "o", "y", "m", "e", "n", "t", " ", "h", "i", "s", "t", "o", "r", "y">>>>),
                             RegExp(Alt(<<
                                        Cat(<<
                                          Alt(<<Lit(<<"1", "9">>), Lit(<<"2", "0">>)>>),
                                          Rep(Set(Digits), 2, 2),
                                          Star(Set(SpaceChars)),
                                          Lit(<<"-">>),
                                          Star(Set(SpaceChars)),
                                          Alt(<<Lit(<<"1", "9">>), Lit(<<"2", "0">>)>>),
                                          Rep(Set(Digits), 2, 2)>>),
                                        Cat(<<
                                          Alt(<<Lit(<<"1", "9">>), Lit(<<"2", "0">>)>>),
                                          Rep(Set(Digits), 2, 2),
                                          Star(Set(SpaceChars)),
                                          Lit(<<"-">>),
                                          Star(Set(SpaceChars)),
                                          Lit(<<"p", "r", "e", "s", "e", "n", "t">>)>>)>>),
                                      {"i"}, 0)), year))

(***************************************************************************)
(* extractSkills, extractTechnicalSkills, extractSoftSkills and            *)
(* extractLanguages.                                                       *)
(***************************************************************************)
\* Array.prototype.map
Map(array, F(_)) == [k \in 1..Len(array) |-> F(array[k])]
\* [...new Set(array)]
Unique(array) == PushNew(<<>>, array)
\* new RegExp(`\\b${word}\\b`, 'i') of a word without pattern characters
WordRegExp(word) == RegExp(Cat(<<WB, Lit(word), WB>>), {"i"}, 0)

\* the bulleted items of a section, cleaned and not empty (lines 593-600,
\* 652-659, 761-768 and 826-833)
BulletedItems(section) ==
  SelectSeq(
    Map(MatchAll(section, RegExp(Cat(<<
               Alt(<<Lit(<<Bullet>>), Lit(<<"-">>), Lit(<<"*">>), Lit(<<"+">>)>>),
               Star(Set(SpaceChars)),
               Grp(1, Plus(NSet({Bullet, "-", "*", "+", "\n"})))>>),
             {}, 1)),
        LAMBDA skill : Trim(ReplaceFirst(skill, RegExp(Cat(<<BOL, Plus(Set(SpaceChars \cup {Bullet, "-", "*", "+"}))>>), {}, 0), <<>>))),
    LAMBDA cleanedSkill : cleanedSkill # <<>>)
\* the comma-separated items of a section, cleaned, not empty and shorter
\* than 50 characters (lines 604-611 and 772-779)
CommaItems(section) ==
  SelectSeq(
    Map(MatchAll(section, RegExp(Grp(1, Cat(<<
                 Plus(NSet({",", "\n"})),
                 Alt(<<Cat(<<Lit(<<",">>), Star(Set(SpaceChars))>>), EOL>>)>>)),
             {}, 1)),
        LAMBDA skill : Trim(ReplaceFirst(skill, RegExp(Cat(<<Lit(<<",">>), EOL>>), {}, 0), <<>>))),
    LAMBDA cleanedSkill : cleanedSkill # <<>> /\ Len(cleanedSkill) < 50)
\* the trimmed lines of a section that are not empty, do not contain word
\* in any case and are shorter than 50 characters (lines 615-623, 837-845)
LineItems(section, word) ==
  SelectSeq(Map(SplitLines(section), Trim),
            LAMBDA cleanedLine : /\ cleanedLine # <<>>
                                 /\ ~Includes(ToLowerCase(cleanedLine), word)
                                 /\ Len(cleanedLine) < 50)

extractSkills(text) ==
  Let(extractSection(text, <<<<"s", "k", "i", "l", "l", "s">>, <<"t", "e", "c", "h", "n", "i", "c", "a", "l", " ", "s", "k", "i", "l", "l", "s">>, <<"c", "o", "r", "e", " ", "c", "o", "m", "p", "e", "t", "e", "n", "c", "i", "e", "s">>,
        <<"k", "e", "y", " ", "s", "k", "i", "l", "l", "s">>, <<"p", "r", "o", "f", "e", "s", "s", "i", "o", "n", "a", "l", " ", "s", "k", "i", "l", "l", "s">>, <<"e", "x", "p", "e", "r", "t", "i", "s", "e">>, <<"p", "r", "o", "f", "i", "c", "i", "e", "n", "c", "i", "e", "s">>,
        <<"q", "u", "a", "l", "i", "f", "i", "c", "a", "t", "i", "o", "n", "s">>>>),
      LAMBDA skillsSection :
    IF skillsSection = <<>> THEN <<>>
    ELSE Join(Unique(PushNew(PushNew(PushNew(<<>>, BulletedItems(skillsSection)),
                                     CommaItems(skillsSection)),
                             LineItems(skillsSection, <<"s", "k", "i", "l", "l">>))),
              <<",", " ">>))

\* lines.forEach of extractTechnicalSkills (lines 666-691)
RECURSIVE CategoryLines(_, _, _)
CategoryLines(lines, currentCategory, technicalSkills) ==
  IF lines = <<>> THEN technicalSkills
  ELSE Let(Trim(Head(lines)), LAMBDA cleanedLine :
    IF EndsWith(cleanedLine, <<":">>) \/ EndsWith(cleanedLine, <<"-">>)
    THEN CategoryLines(Tail(lines),
                       Trim(ReplaceFirst(cleanedLine, RegExp(Cat(<<Set({":", "|", "-"}), EOL>>), {}, 0), <<>>)),
                       technicalSkills)
    ELSE IF cleanedLine # <<>> /\ Len(cleanedLine) < 100
    THEN Let(SelectSeq(Map(Split(cleanedLine, RegExp(Alt(<<Lit(<<",">>), Lit(<<";">>)>>), {}, 0)), Trim),
                       LAMBDA s : s # <<>>),
             LAMBDA lineSkills :
      IF lineSkills = <<>> THEN CategoryLines(Tail(lines), currentCategory, technicalSkills)
      ELSE IF currentCategory # <<>>
      THEN CategoryLines(Tail(lines), <<>>,
             Append(technicalSkills, currentCategory \o <<":", " ">> \o Join(lineSkills, <<",", " ">>)))
      ELSE CategoryLines(Tail(lines), currentCategory, PushNew(technicalSkills, lineSkills)))
    ELSE CategoryLines(Tail(lines), currentCategory, technicalSkills))

\* the `${name} - ${level}` texts of the matches of a pattern with a name
\* group and a level group (lines 697-704, 860-868 and 873-881)
WithLevel(matches, Level(_)) ==
  SelectSeq(
    Map(matches, LAMBDA m :
      IF Trim(m.g[1]) # <<>> /\ Level(m.g[2]) # <<>>
      THEN Trim(m.g[1]) \o <<" ", "-", " ">> \o Level(m.g[2]) ELSE <<>>),
    LAMBDA formatted : formatted # <<>>)

extractTechnicalSkills(text) ==
  Let(extractSection(text, <<<<"t", "e", "c", "h", "n", "i", "c", "a", "l", " ", "s", "k", "i", "l", "l", "s">>, <<"t", "e", "c", "h", "n", "i", "c", "a", "l", " ", "e", "x", "p", "e", "r", "t", "i", "s", "e">>,
        <<"t", "e", "c", "h", "n", "i", "c", "a", "l", " ", "p", "r", "o", "f", "i", "c", "i", "e", "n", "c", "i", "e", "s">>, <<"p", "r", "o", "g", "r", "a", "m", "m", "i", "n", "g", " ", "l", "a", "n", "g", "u", "a", "g", "e", "s">>, <<"t", "e", "c", "h", "n", "o", "l", "o", "g", "i", "e", "s">>, <<"t", "o", "o", "l", "s">>,
        <<"s", "o", "f", "t", "w", "a", "r", "e">>, <<"f", "r", "a", "m", "e", "w", "o", "r", "k", "s">>, <<"d", "e", "v", "e", "l", "o", "p", "m", "e", "n", "t", " ", "s", "k", "i", "l", "l", "s">>, <<"c", "o", "m", "p", "u", "t", "e", "r", " ", "s", "k", "i", "l", "l", "s">>,
        <<"t", "e", "c", "h", "n", "i", "c", "a", "l", " ", "c", "o", "m", "p", "e", "t", "e", "n", "c", "i", "e", "s">>, <<"c", "o", "m", "p", "u", "t", "a", "t", "i", "o", "n", "a", "l", " ", "s", "k", "i", "l", "l", "s">>, <<"d", "i", "g", "i", "t", "a", "l", " ", "s", "k", "i", "l", "l", "s">>,
        <<"i", "t", " ", "s", "k", "i", "l", "l", "s">>, <<"c", "o", "d", "i", "n", "g", " ", "s", "k", "i", "l", "l", "s">>, <<"p", "r", "o", "g", "r", "a", "m", "m", "i", "n", "g", " ", "s", "k", "i", "l", "l", "s">>, <<"t", "e", "c", "h", "n", "i", "c", "a", "l", " ", "t", "o", "o", "l", "s">>,
        <<"d", "e", "v", "e", "l", "o", "p", "m", "e", "n", "t", " ", "t", "o", "o", "l", "s">>>>),
      LAMBDA technicalSection :
    IF technicalSection = <<>> THEN <<>>
    ELSE Let(PushNew(CategoryLines(SplitLines(technicalSection), <<>>,
                                   PushNew(<<>>, BulletedItems(technicalSection))),
                     WithLevel(ExecAll(RegExp(Cat(<<
                                Grp(1, Cat(<<
                                    Plus(Set(WordChars)),
                                    Star(Cat(<<Plus(Set(SpaceChars)), Plus(Set(WordChars))>>))>>)),
                                Star(Set(SpaceChars)),
                                Set({"-", EnDash, ":"}),
                                Star(Set(SpaceChars)),
                                Grp(2, Alt(<<
                                    Lit(<<"b", "e", "g", "i", "n", "n", "e", "r">>),
                                    Lit(<<"i", "n", "t", "e", "r", "m", "e", "d", "i", "a", "t", "e">>),
                                    Lit(<<"a", "d", "v", "a", "n", "c", "e", "d">>),
                                    Lit(<<"e", "x", "p", "e", "r", "t">>),
                                    Lit(<<"p", "r", "o", "f", "i", "c", "i", "e", "n", "t">>),
                                    Lit(<<"f", "l", "u", "e", "n", "t">>),
                                    Lit(<<"n", "a", "t", "i", "v", "e">>),
                                    Lit(<<"b", "a", "s", "i", "c">>),
                                    Lit(<<"w", "o", "r", "k", "i", "n", "g", " ", "k", "n", "o", "w", "l", "e", "d", "g", "e">>),
                                    Lit(<<"p", "r", "o", "f", "e", "s", "s", "i", "o", "n", "a", "l">>)>>))>>),
                              {"i"}, 2), technicalSection, 0), Trim)),
             LAMBDA technicalSkills :
      IF technicalSkills = <<>>
      THEN Join(Unique(Map(MatchAll(text, RegExp(Cat(<<
                 WB,
                 Grp(1, Alt(<<
                     Lit(<<"j", "a", "v", "a">>),
                     Lit(<<"p", "y", "t", "h", "o", "n">>),
                     Lit(<<"j", "a", "v", "a", "s", "c", "r", "i", "p", "t">>),
                     Lit(<<"j", "s">>),
                     Lit(<<"t", "y", "p", "e", "s", "c", "r", "i", "p", "t">>),
                     Lit(<<"t", "s">>),
                     Lit(<<"c", "+", "+">>),
                     Lit(<<"c", "#">>),
                     Lit(<<"r", "u", "b", "y">>),
                     Lit(<<"p", "h", "p">>),
                     Lit(<<"s", "w", "i", "f", "t">>),
                     Lit(<<"k", "o", "t", "l", "i", "n">>),
                     Lit(<<"g", "o">>),
                     Lit(<<"r", "u", "s", "t">>),
                     Lit(<<"h", "t", "m", "l">>),
                     Lit(<<"c", "s", "s">>),
                     Lit(<<"s", "q", "l">>),
                     Lit(<<"n", "o", "s", "q", "l">>),
                     Lit(<<"r", "e", "a", "c", "t">>),
                     Lit(<<"a", "n", "g", "u", "l", "a", "r">>),
                     Lit(<<"v", "u", "e">>),
                     Lit(<<"n", "o", "d", "e">>),
                     Lit(<<"e", "x", "p", "r", "e", "s", "s">>),
                     Lit(<<"d", "j", "a", "n", "g", "o">>),
                     Lit(<<"f", "l", "a", "s", "k">>),
                     Lit(<<"s", "p", "r", "i", "n", "g">>),
                     Lit(<<"d", "o", "c", "k", "e", "r">>),
                     Lit(<<"k", "u", "b", "e", "r", "n", "e", "t", "e", "s">>),
                     Lit(<<"a", "w", "s">>),
                     Lit(<<"a", "z", "u", "r", "e">>),
                     Lit(<<"g", "c", "p">>),
                     Lit(<<"g", "i", "t">>),
                     Lit(<<"g", "i", "t", "h", "u", "b">>),
                     Lit(<<"g", "i", "t", "l", "a", "b">>),
                     Lit(<<"b", "i", "t", "b", "u", "c", "k", "e", "t">>),
                     Lit(<<"j", "i", "r", "a">>),
                     Lit(<<"a", "g", "i", "l", "e">>),
                     Lit(<<"s", "c", "r", "u", "m">>),
                     Lit(<<"m", "a", "c", "h", "i", "n", "e", " ", "l", "e", "a", "r", "n", "i", "n", "g">>),
                     Lit(<<"m", "l">>),
                     Lit(<<"a", "i">>),
                     Lit(<<"d", "a", "t", "a", " ", "s", "c", "i", "e", "n", "c", "e">>),
                     Lit(<<"b", "l", "o", "c", "k", "c", "h", "a", "i", "n">>)>>)),
                 WB>>),
               {"i"}, 1)),
                           LAMBDA tech : ToLowerCase(Trim(tech)))),
                <<"\n">>)
      ELSE Join(technicalSkills, <<"\n">>)))

commonSoftSkills ==
  <<<<"c", "o", "m", "m", "u", "n", "i", "c", "a", "t", "i", "o", "n">>, <<"t", "e", "a", "m", "w", "o", "r", "k">>, <<"l", "e", "a", "d", "e", "r", "s", "h", "i", "p">>, <<"p", "r", "o", "b", "l", "e", "m", " ", "s", "o", "l", "v", "i", "n", "g">>,
    <<"c", "r", "i", "t", "i", "c", "a", "l", " ", "t", "h", "i", "n", "k", "i", "n", "g">>, <<"a", "d", "a", "p", "t", "a", "b", "i", "l", "i", "t", "y">>, <<"f", "l", "e", "x", "i", "b", "i", "l", "i", "t", "y">>, <<"t", "i", "m", "e", " ", "m", "a", "n", "a", "g", "e", "m", "e", "n", "t">>,
    <<"o", "r", "g", "a", "n", "i", "z", "a", "t", "i", "o", "n">>, <<"c", "r", "e", "a", "t", "i", "v", "i", "t", "y">>, <<"i", "n", "t", "e", "r", "p", "e", "r", "s", "o", "n", "a", "l">>, <<"n", "e", "g", "o", "t", "i", "a", "t", "i", "o", "n">>,
    <<"c", "o", "n", "f", "l", "i", "c", "t", " ", "r", "e", "s", "o", "l", "u", "t", "i", "o", "n">>, <<"d", "e", "c", "i", "s", "i", "o", "n", " ", "m", "a", "k", "i", "n", "g">>, <<"e", "m", "o", "t", "i", "o", "n", "a", "l", " ", "i", "n", "t", "e", "l", "l", "i", "g", "e", "n", "c", "e">>,
    <<"a", "t", "t", "e", "n", "t", "i", "o", "n", " ", "t", "o", " ", "d", "e", "t", "a", "i", "l">>, <<"a", "n", "a", "l", "y", "t", "i", "c", "a", "l">>, <<"p", "r", "e", "s", "e", "n", "t", "a", "t", "i", "o", "n">>, <<"p", "u", "b", "l", "i", "c", " ", "s", "p", "e", "a", "k", "i", "n", "g">>,
    <<"w", "r", "i", "t", "i", "n", "g">>, <<"c", "o", "l", "l", "a", "b", "o", "r", "a", "t", "i", "o", "n">>, <<"t", "e", "a", "m", " ", "p", "l", "a", "y", "e", "r">>, <<"s", "e", "l", "f", "-", "m", "o", "t", "i", "v", "a", "t", "e", "d">>, <<"p", "r", "o", "a", "c", "t", "i", "v", "e">>,
    <<"i", "n", "i", "t", "i", "a", "t", "i", "v", "e">>, <<"m", "u", "l", "t", "i", "t", "a", "s", "k", "i", "n", "g">>, <<"p", "l", "a", "n", "n", "i", "n", "g">>, <<"p", "r", "i", "o", "r", "i", "t", "i", "z", "a", "t", "i", "o", "n">>,
    <<"c", "u", "s", "t", "o", "m", "e", "r", " ", "s", "e", "r", "v", "i", "c", "e">>, <<"c", "l", "i", "e", "n", "t", " ", "r", "e", "l", "a", "t", "i", "o", "n", "s">>>>
extractSoftSkillsFromText(text) ==
  Let(PushNew(PushNew(<<>>, BulletedItems(text)), CommaItems(text)), LAMBDA softSkills :
    IF softSkills = <<>>
    THEN Join(Unique(SelectSeq(commonSoftSkills,
                               LAMBDA skill : Test(WordRegExp(skill), text))),
              <<",", " ">>)
    ELSE Join(Unique(softSkills), <<",", " ">>))
extractSoftSkills(text) ==
  Let(extractSection(text, <<<<"s", "o", "f", "t", " ", "s", "k", "i", "l", "l", "s">>, <<"i", "n", "t", "e", "r", "p", "e", "r", "s", "o", "n", "a", "l", " ", "s", "k", "i", "l", "l", "s">>, <<"p", "e", "r", "s", "o", "n", "a", "l", " ", "s", "k", "i", "l", "l", "s">>,
        <<"p", "r", "o", "f", "e", "s", "s", "i", "o", "n", "a", "l", " ", "s", "k", "i", "l", "l", "s">>, <<"t", "r", "a", "n", "s", "f", "e", "r", "a", "b", "l", "e", " ", "s", "k", "i", "l", "l", "s">>, <<"c", "o", "r", "e", " ", "c", "o", "m", "p", "e", "t", "e", "n", "c", "i", "e", "s">>,
        <<"s", "t", "r", "e", "n", "g", "t", "h", "s">>, <<"a", "t", "t", "r", "i", "b", "u", "t", "e", "s">>, <<"p", "e", "r", "s", "o", "n", "a", "l", " ", "a", "t", "t", "r", "i", "b", "u", "t", "e", "s">>, <<"p", "e", "r", "s", "o", "n", "a", "l", " ", "q", "u", "a", "l", "i", "t", "i", "e", "s">>,
        <<"k", "e", "y", " ", "c", "o", "m", "p", "e", "t", "e", "n", "c", "i", "e", "s">>, <<"c", "o", "m", "m", "u", "n", "i", "c", "a", "t", "i", "o", "n", " ", "s", "k", "i", "l", "l", "s">>, <<"l", "e", "a", "d", "e", "r", "s", "h", "i", "p", " ", "s", "k", "i", "l", "l", "s">>,
        <<"m", "a", "n", "a", "g", "e", "m", "e", "n", "t", " ", "s", "k", "i", "l", "l", "s">>, <<"p", "e", "o", "p", "l", "e", " ", "s", "k", "i", "l", "l", "s">>, <<"t", "e", "a", "m", "w", "o", "r", "k", " ", "s", "k", "i", "l", "l", "s">>>>),
      LAMBDA softSkillsSection :
    IF softSkillsSection # <<>> THEN extractSoftSkillsFromText(softSkillsSection)
    ELSE Let(extractSection(text, <<<<"s", "u", "m", "m", "a", "r", "y">>, <<"p", "r", "o", "f", "i", "l", "e">>, <<"a", "b", "o", "u", "t", " ", "m", "e">>,
                                    <<"p", "r", "o", "f", "e", "s", "s", "i", "o", "n", "a", "l", " ", "s", "u", "m", "m", "a", "r", "y">>, <<"c", "a", "r", "e", "e", "r", " ", "o", "b", "j", "e", "c", "t", "i", "v", "e">>>>),
             LAMBDA summarySection :
      IF summarySection # <<>> THEN extractSoftSkillsFromText(summarySection) ELSE <<>>))

commonLanguages ==
  <<<<"E", "n", "g", "l", "i", "s", "h">>, <<"S", "p", "a", "n", "i", "s", "h">>, <<"F", "r", "e", "n", "c", "h">>, <<"G", "e", "r", "m", "a", "n">>, <<"C", "h", "i", "n", "e", "s", "e">>, <<"J", "a", "p", "a", "n", "e", "s", "e">>,
    <<"A", "r", "a", "b", "i", "c">>, <<"R", "u", "s", "s", "i", "a", "n">>, <<"P", "o", "r", "t", "u", "g", "u", "e", "s", "e">>, <<"I", "t", "a", "l", "i", "a", "n">>>>
extractLanguages(text) ==
  Let(extractSection(text, <<<<"l", "a", "n", "g", "u", "a", "g", "e", "s">>, <<"l", "a", "n", "g", "u", "a", "g", "e", " ", "s", "k", "i", "l", "l", "s">>, <<"l", "a", "n", "g", "u", "a", "g", "e", " ", "p", "r", "o", "f", "i", "c", "i", "e", "n", "c", "y">>,
        <<"l", "i", "n", "g", "u", "i", "s", "t", "i", "c", " ", "s", "k", "i", "l", "l", "s">>, <<"f", "o", "r", "e", "i", "g", "n", " ", "l", "a", "n", "g", "u", "a", "g", "e", "s">>, <<"s", "p", "o", "k", "e", "n", " ", "l", "a", "n", "g", "u", "a", "g", "e", "s">>,
        <<"l", "a", "n", "g", "u", "a", "g", "e", " ", "c", "o", "m", "p", "e", "t", "e", "n", "c", "i", "e", "s">>, <<"m", "u", "l", "t", "i", "l", "i", "n", "g", "u", "a", "l", " ", "s", "k", "i", "l", "l", "s">>, <<"l", "a", "n", "g", "u", "a", "g", "e", " ", "q", "u", "a", "l", "i", "f", "i", "c", "a", "t", "i", "o", "n", "s">>,
        <<"l", "a", "n", "g", "u", "a", "g", "e", " ", "c", "e", "r", "t", "i", "f", "i", "c", "a", "t", "e", "s">>>>),
      LAMBDA languagesSection :
    IF languagesSection = <<>> THEN <<>>
    ELSE Let(
      PushNew(PushNew(PushNew(PushNew(PushNew(<<>>,
        BulletedItems(languagesSection)),
        LineItems(languagesSection, <<"l", "a", "n", "g", "u", "a", "g", "e">>)),
        Map(MatchAll(languagesSection, RegExp(Cat(<<
                   Grp(1, Cat(<<
                       Plus(Set(UpperSet \cup LowerSet)),
                       Star(Cat(<<Plus(Set(SpaceChars)), Plus(Set(UpperSet \cup LowerSet))>>))>>)),
                   Star(Set(SpaceChars)),
                   Set({"-", ":", EnDash}),
                   Star(Set(SpaceChars)),
                   Grp(2, Plus(Set(UpperSet \cup LowerSet \cup SpaceChars)))>>),
                 {}, 2)), Trim)),
        WithLevel(ExecAll(RegExp(Cat(<<
                   Grp(1, Cat(<<
                       Plus(Set(UpperSet \cup LowerSet)),
                       Star(Cat(<<Plus(Set(SpaceChars)), Plus(Set(UpperSet \cup LowerSet))>>))>>)),
                   Star(Set(SpaceChars)),
                   Opt(Set({"-", ":", EnDash})),
                   Star(Set(SpaceChars)),
                   Opt(Lit(<<"C", "E", "F", "R">>)),
                   Star(Set(SpaceChars)),
                   Grp(2, Alt(<<
                       Lit(<<"A", "1">>),
                       Lit(<<"A", "2">>),
                       Lit(<<"B", "1">>),
                       Lit(<<"B", "2">>),
                       Lit(<<"C", "1">>),
                       Lit(<<"C", "2">>)>>))>>),
                 {"i"}, 2), languagesSection, 0), ToUpperCase)),
        WithLevel(ExecAll(RegExp(Cat(<<
                   Grp(1, Cat(<<
                       Plus(Set(UpperSet \cup LowerSet)),
                       Star(Cat(<<Plus(Set(SpaceChars)), Plus(Set(UpperSet \cup LowerSet))>>))>>)),
                   Star(Set(SpaceChars)),
                   Opt(Set({"-", ":", EnDash})),
                   Star(Set(SpaceChars)),
                   Grp(2, Alt(<<
                       Lit(<<"n", "a", "t", "i", "v", "e">>),
                       Lit(<<"f", "l", "u", "e", "n", "t">>),
                       Lit(<<"p", "r", "o", "f", "i", "c", "i", "e", "n", "t">>),
                       Lit(<<"a", "d", "v", "a", "n", "c", "e", "d">>),
                       Lit(<<"i", "n", "t", "e", "r", "m", "e", "d", "i", "a", "t", "e">>),
                       Lit(<<"b", "e", "g", "i", "n", "n", "e", "r">>),
                       Lit(<<"b", "a", "s", "i", "c">>),
                       Lit(<<"e", "l", "e", "m", "e", "n", "t", "a", "r", "y">>),
                       Lit(<<"p", "r", "o", "f", "e", "s", "s", "i", "o", "n", "a", "l">>),
                       Lit(<<"w", "o", "r", "k", "i", "n", "g">>),
                       Lit(<<"l", "i", "m", "i", "t", "e", "d">>)>>))>>),
                 {"i"}, 2), languagesSection, 0), Trim)),
      LAMBDA languages :
      IF languages = <<>>
      THEN Join(SelectSeq(commonLanguages, LAMBDA lang : Test(WordRegExp(lang), text)),
                <<",", " ">>)
      ELSE Join(languages, <<",", " ">>)))

(***************************************************************************)
(* extractProjects: its helpers, the patterns of its four strategies and   *)
(* what each strategy makes of one match.                                  *)
(***************************************************************************)
extractGithubProjectUrl(text) ==
  UrlOf(text,
    <<RegExp(Cat(<<
               Alt(<<
                 Lit(<<"g", "i", "t", "h", "u", "b">>),
                 Lit(<<"r", "e", "p", "o", "s", "i", "t", "o", "r", "y">>),
                 Lit(<<"r", "e", "p", "o">>),
                 Lit(<<"s", "o", "u", "r", "c", "e", " ", "c", "o", "d", "e">>),
                 Lit(<<"c", "o", "d", "e">>)>>),
               Star(Set(SpaceChars)),
               Opt(Lit(<<":">>)),
               Star(Set(SpaceChars)),
               Grp(1, Cat(<<
                   Opt(Cat(<<Lit(<<"h", "t", "t", "p">>), Opt(Lit(<<"s">>)), Lit(<<":", "/", "/">>)>>)),
                   Opt(Lit(<<"w", "w", "w", ".">>)),
                   Lit(<<"g", "i", "t", "h", "u", "b", ".", "c", "o", "m", "/">>),
                   Plus(Set(WordChars \cup {"-"})),
                   Star(Cat(<<Lit(<<"/">>), Plus(Set(WordChars \cup {"-"}))>>))>>))>>),
             {"i"}, 1),
      RegExp(Cat(<<
                 Opt(Cat(<<Lit(<<"h", "t", "t", "p">>), Opt(Lit(<<"s">>)), Lit(<<":", "/", "/">>)>>)),
                 Opt(Lit(<<"w", "w", "w", ".">>)),
                 Lit(<<"g", "i", "t", "h", "u", "b", ".", "c", "o", "m", "/">>),
                 Plus(Set(WordChars \cup {"-"})),
                 Star(Cat(<<Lit(<<"/">>), Plus(Set(WordChars \cup {"-"}))>>))>>),
               {}, 0)>>)
extractLiveProjectUrl(text) ==
  UrlOf(text,
    <<RegExp(Cat(<<
               Alt(<<
                 Lit(<<"l", "i", "v", "e">>),
                 Lit(<<"d", "e", "m", "o">>),
                 Lit(<<"w", "e", "b", "s", "i", "t", "e">>),
                 Lit(<<"d", "e", "p", "l", "o", "y", "e", "d">>),
                 Lit(<<"p", "r", "o", "d", "u", "c", "t", "i", "o", "n">>),
                 Lit(<<"a", "p", "p">>),
                 Lit(<<"a", "p", "p", "l", "i", "c", "a", "t", "i", "o", "n">>),
                 Lit(<<"s", "i", "t", "e">>),
                 Lit(<<"p", "r", "e", "v", "i", "e", "w">>)>>),
               Star(Set(SpaceChars)),
               Opt(Lit(<<":">>)),
               Star(Set(SpaceChars)),
               Grp(1, Cat(<<
                   Opt(Cat(<<Lit(<<"h", "t", "t", "p">>), Opt(Lit(<<"s">>)), Lit(<<":", "/", "/">>)>>)),
                   Opt(Lit(<<"w", "w", "w", ".">>)),
                   Plus(Set(WordChars \cup {"-"})),
                   Lit(<<".">>),
                   RepInf(Set(LowerSet), 2),
                   Opt(Cat(<<
                       Lit(<<"/">>),
                       Star(Set(WordChars \cup {"-", ".", "/", "?", "%", "&", "="}))>>))>>))>>),
             {"i"}, 1),
      RegExp(Cat(<<
                 Opt(Cat(<<Lit(<<"h", "t", "t", "p">>), Opt(Lit(<<"s">>)), Lit(<<":", "/", "/">>)>>)),
                 Opt(Lit(<<"w", "w", "w", ".">>)),
                 NLA(Lit(<<"g", "i", "t", "h", "u", "b", ".", "c", "o", "m">>)),
                 Plus(Set(WordChars \cup {"-"})),
                 Lit(<<".">>),
                 RepInf(Set(LowerSet), 2),
                 Opt(Cat(<<
                     Lit(<<"/">>),
                     Star(Set(WordChars \cup {"-", ".", "/", "?", "%", "&", "="}))>>))>>),
               {}, 0)>>)
extractProjectRole(text) ==
  Let(FirstPatternMatch(text,
        <<RegExp(Cat(<<
                   Alt(<<
                     Lit(<<"r", "o", "l", "e">>),
                     Lit(<<"p", "o", "s", "i", "t", "i", "o", "n">>),
                     Lit(<<"r", "e", "s", "p", "o", "n", "s", "i", "b", "i", "l", "i", "t", "y">>),
                     Lit(<<"t", "i", "t", "l", "e">>)>>),
                   Star(Set(SpaceChars)),
                   Opt(Lit(<<":">>)),
                   Star(Set(SpaceChars)),
                   Grp(1, Plus(NSet({"\n", ","})))>>),
                 {"i"}, 1),
          RegExp(Cat(<<
                     Alt(<<
                       Lit(<<"a", "s">>),
                       Lit(<<"w", "o", "r", "k", "e", "d", " ", "a", "s">>)>>),
                     Plus(Set(SpaceChars)),
                     Opt(Alt(<<Lit(<<"a">>), Lit(<<"a", "n">>)>>)),
                     Plus(Set(SpaceChars)),
                     Grp(1, Plus(NSet({"\n", ",", "."})))>>),
                   {"i"}, 1)>>),
      LAMBDA match :
    IF match.ok THEN Trim(match.g[1]) ELSE Null)

\* the project record the strategies push: links and role are looked for in
\* content, the date range in dated
Project(name, description, technologies, content, dated) ==
  Let(extractDateRange(dated), LAMBDA dateRange :
    [name |-> name,
     description |-> description,
     technologies |-> technologies,
     githubLink |-> OrElse(extractGithubProjectUrl(content), <<>>),
     liveLink |-> OrElse(extractLiveProjectUrl(content), <<>>),
     startDate |-> dateRange.startDate,
     endDate |-> dateRange.endDate,
     role |-> OrElse(extractProjectRole(content), <<>>)])

projectHeaders ==
  <<<<"p", "r", "o", "j", "e", "c", "t", "s">>, <<"p", "e", "r", "s", "o", "n", "a", "l", " ", "p", "r", "o", "j", "e", "c", "t", "s">>, <<"a", "c", "a", "d", "e", "m", "i", "c", " ", "p", "r", "o", "j", "e", "c", "t", "s">>, <<"p", "o", "r", "t", "f", "o", "l", "i", "o">>,
    <<"w", "o", "r", "k", " ", "s", "a", "m", "p", "l", "e", "s">>, <<"r", "e", "s", "e", "a", "r", "c", "h", " ", "p", "r", "o", "j", "e", "c", "t", "s">>, <<"k", "e", "y", " ", "p", "r", "o", "j", "e", "c", "t", "s">>, <<"n", "o", "t", "a", "b", "l", "e", " ", "p", "r", "o", "j", "e", "c", "t", "s">>,
    <<"s", "e", "l", "e", "c", "t", "e", "d", " ", "p", "r", "o", "j", "e", "c", "t", "s">>, <<"a", "c", "a", "d", "e", "m", "i", "c", " ", "w", "o", "r", "k", "s">>, <<"p", "u", "b", "l", "i", "c", "a", "t", "i", "o", "n", "s">>, <<"i", "m", "p", "l", "e", "m", "e", "n", "t", "a", "t", "i", "o", "n", "s">>,
    <<"s", "o", "f", "t", "w", "a", "r", "e", " ", "p", "r", "o", "j", "e", "c", "t", "s">>>>
projectPattern1 ==
  RegExp(Cat(<<
             Alt(<<
               Lit(<<"p", "r", "o", "j", "e", "c", "t">>),
               Lit(<<"a", "p", "p", "l", "i", "c", "a", "t", "i", "o", "n">>),
               Lit(<<"p", "o", "r", "t", "f", "o", "l", "i", "o", " ", "i", "t", "e", "m">>),
               Lit(<<"p", "u", "b", "l", "i", "c", "a", "t", "i", "o", "n">>)>>),
             Star(Set(SpaceChars)),
             Opt(Lit(<<":">>)),
             Star(Set(SpaceChars)),
             Grp(1, Plus(NSet({"\n"}))),
             Lit(<<"\n">>),
             Grp(2, Plus(NSet({"\n"}))),
             Opt(Cat(<<
                 LazyInf(NSet({}), 0),
                 Alt(<<
                   Lit(<<"t", "e", "c", "h", "n", "o", "l", "o", "g", "y">>),
                   Lit(<<"t", "e", "c", "h", " ", "s", "t", "a", "c", "k">>),
                   Lit(<<"t", "o", "o", "l", "s">>),
                   Lit(<<"l", "a", "n", "g", "u", "a", "g", "e", "s">>),
                   Lit(<<"f", "r", "a", "m", "e", "w", "o", "r", "k">>),
                   Lit(<<"l", "i", "b", "r", "a", "r", "y">>)>>),
                 Star(Set(SpaceChars)),
                 Opt(Lit(<<":">>)),
                 Star(Set(SpaceChars)),
                 Grp(3, Plus(NSet({"\n"})))>>))>>),
           {"i"}, 3)
projectTitleRegex ==
  RegExp(Cat(<<
             Set({Bullet, "-", "*"}),
             Star(Set(SpaceChars)),
             Grp(1, Cat(<<Set(UpperSet), Plus(NSet({"\n", ":"}))>>)),
             Alt(<<Lit(<<":">>), Lit(<<"\n">>)>>)>>),
           {}, 1)
dateProjectRegex ==
  RegExp(Cat(<<
             Grp(1, Cat(<<Set(UpperSet), Plus(NSet({"\n"}))>>)),
             Star(Set(SpaceChars)),
             Lit(<<"(">>),
             Star(Set(SpaceChars)),
             Grp(2, Cat(<<
                 Alt(<<
                   Lit(<<"J", "a", "n">>),
                   Lit(<<"F", "e", "b">>),
                   Lit(<<"M", "a", "r">>),
                   Lit(<<"A", "p", "r">>),
                   Lit(<<"M", "a", "y">>),
                   Lit(<<"J", "u", "n">>),
                   Lit(<<"J", "u", "l">>),
                   Lit(<<"A", "u", "g">>),
                   Lit(<<"S", "e", "p">>),
                   Lit(<<"O", "c", "t">>),
                   Lit(<<"N", "o", "v">>),
                   Lit(<<"D", "e", "c">>),
                   Lit(<<"J", "a", "n", "u", "a", "r", "y">>),
                   Lit(<<"F", "e", "b", "r", "u", "a", "r", "y">>),
                   Lit(<<"M", "a", "r", "c", "h">>),
                   Lit(<<"A", "p", "r", "i", "l">>),
                   Lit(<<"M", "a", "y">>),
                   Lit(<<"J", "u", "n", "e">>),
                   Lit(<<"J", "u", "l", "y">>),
                   Lit(<<"A", "u", "g", "u", "s", "t">>),
                   Lit(<<"S", "e", "p", "t", "e", "m", "b", "e", "r">>),
                   Lit(<<"O", "c", "t", "o", "b", "e", "r">>),
                   Lit(<<"N", "o", "v", "e", "m", "b", "e", "r">>),
                   Lit(<<"D", "e", "c", "e", "m", "b", "e", "r">>)>>),
                 Star(Set(SpaceChars)),
                 Rep(Set(Digits), 4, 4),
                 Star(Set(SpaceChars)),
                 Alt(<<Lit(<<"-">>), Lit(<<EnDash>>), Lit(<<EmDash>>)>>),
                 Star(Set(SpaceChars)),
                 Alt(<<
                   Lit(<<"J", "a", "n">>),
                   Lit(<<"F", "e", "b">>),
                   Lit(<<"M", "a", "r">>),
                   Lit(<<"A", "p", "r">>),
                   Lit(<<"M", "a", "y">>),
                   Lit(<<"J", "u", "n">>),
                   Lit(<<"J", "u", "l">>),
                   Lit(<<"A", "u", "g">>),
                   Lit(<<"S", "e", "p">>),
                   Lit(<<"O", "c", "t">>),
                   Lit(<<"N", "o", "v">>),
                   Lit(<<"D", "e", "c">>),
                   Lit(<<"J", "a", "n", "u", "a", "r", "y">>),
                   Lit(<<"F", "e", "b", "r", "u", "a", "r", "y">>),
                   Lit(<<"M", "a", "r", "c", "h">>),
                   Lit(<<"A", "p", "r", "i", "l">>),
                   Lit(<<"M", "a", "y">>),
                   Lit(<<"J", "u", "n", "e">>),
                   Lit(<<"J", "u", "l", "y">>),
                   Lit(<<"A", "u", "g", "u", "s", "t">>),
                   Lit(<<"S", "e", "p", "t", "e", "m", "b", "e", "r">>),
                   Lit(<<"O", "c", "t", "o", "b", "e", "r">>),
                   Lit(<<"N", "o", "v", "e", "m", "b", "e", "r">>),
                   Lit(<<"D", "e", "c", "e", "m", "b", "e", "r">>),
                   Lit(<<"P", "r", "e", "s", "e", "n", "t">>),
                   Lit(<<"C", "u", "r", "r", "e", "n", "t">>),
                   Lit(<<"N", "o", "w">>)>>),
                 Star(Set(SpaceChars)),
                 Rep(Set(Digits), 0, 4)>>)),
             Star(Set(SpaceChars)),
             Lit(<<")">>)>>),
           {"i"}, 2)
\* technology, tech stack, ... with the text after it
techIndicator ==
  RegExp(Cat(<<
             Alt(<<
               Lit(<<"t", "e", "c", "h", "n", "o", "l", "o", "g", "y">>),
               Lit(<<"t", "e", "c", "h", " ", "s", "t", "a", "c", "k">>),
               Lit(<<"t", "o", "o", "l", "s">>),
               Lit(<<"l", "a", "n", "g", "u", "a", "g", "e", "s">>),
               Lit(<<"b", "u", "i", "l", "t", " ", "w", "i", "t", "h">>),
               Lit(<<"d", "e", "v", "e", "l", "o", "p", "e", "d", " ", "u", "s", "i", "n", "g">>),
               Lit(<<"i", "m", "p", "l", "e", "m", "e", "n", "t", "e", "d", " ", "w", "i", "t", "h">>),
               Lit(<<"f", "r", "a", "m", "e", "w", "o", "r", "k">>),
               Lit(<<"l", "i", "b", "r", "a", "r", "y">>),
               Lit(<<"t", "e", "c", "h", "n", "o", "l", "o", "g", "i", "e", "s", " ", "u", "s", "e", "d">>)>>),
             Star(Set(SpaceChars)),
             Opt(Lit(<<":">>)),
             Star(Set(SpaceChars)),
             Grp(1, Plus(NSet({"\n"})))>>),
           {"i"}, 1)

\* lines 920-936: the project of one match of projectPattern1
ProjectPattern1(match1) ==
  Project(Trim(match1.g[1]), Trim(match1.g[2]),
          IF match1.g[3] # <<>> THEN Trim(match1.g[3]) ELSE <<>>,
          match1.all, match1.all)

\* lines 944-999: the project of one match of projectTitleRegex
ProjectPattern2(projectsSection, match2) ==
  Let([bullet |-> IndexOf(projectsSection, <<Bullet>>, match2.end),
       nextMatch |-> ExecFrom(RegExp(Cat(<<Set({Bullet, "-", "*"}), Star(Set(SpaceChars)), Set(UpperSet)>>), {}, 0), projectsSection, match2.end)],
      LAMBDA next :
  Let(IF next.bullet > -1 THEN next.bullet ELSE Len(projectsSection), LAMBDA endIndex :
  Let(Trim(Substring(projectsSection, match2.end,
                     IF next.nextMatch.ok /\ next.nextMatch.index < endIndex
                     THEN next.nextMatch.index ELSE endIndex)),
      LAMBDA projectContent :
  Let(FirstPatternMatch(projectContent,
        <<techIndicator,
          RegExp(Cat(<<
                     Lit(<<"u", "s", "i", "n", "g">>),
                     Plus(Set(SpaceChars)),
                     Grp(1, Cat(<<
                         Plus(NSet({"\n", ".", ","})),
                         Star(Cat(<<
                             Star(Set(SpaceChars)),
                             Lit(<<",">>),
                             Star(Set(SpaceChars)),
                             Plus(NSet({"\n", ".", ","}))>>))>>))>>),
                   {"i"}, 1),
          RegExp(Cat(<<
                     Lit(<<"w", "i", "t", "h">>),
                     Plus(Set(SpaceChars)),
                     Grp(1, Cat(<<
                         Plus(NSet({"\n", ".", ","})),
                         Star(Cat(<<
                             Star(Set(SpaceChars)),
                             Lit(<<",">>),
                             Star(Set(SpaceChars)),
                             Plus(NSet({"\n", ".", ","}))>>))>>))>>),
                   {"i"}, 1)>>),
      LAMBDA techMatch :
    Project(Trim(match2.g[1]),
            IF techMatch.ok THEN Trim(ReplaceString(projectContent, techMatch.all, <<>>))
            ELSE projectContent,
            IF techMatch.ok THEN Trim(techMatch.g[1]) ELSE <<>>,
            projectContent, projectContent)))))

\* lines 1008-1052: the project of one block of two or more lines
ProjectBlock(block) ==
  Let(SplitLines(block), LAMBDA lines :
  Let({k \in 1..Len(lines) :
         Test(RegExp(Cat(<<
                    Alt(<<
                      Lit(<<"t", "e", "c", "h", "n", "o", "l", "o", "g", "y">>),
                      Lit(<<"t", "e", "c", "h", " ", "s", "t", "a", "c", "k">>),
                      Lit(<<"t", "o", "o", "l", "s">>),
                      Lit(<<"l", "a", "n", "g", "u", "a", "g", "e", "s">>),
                      Lit(<<"b", "u", "i", "l", "t", " ", "w", "i", "t", "h">>),
                      Lit(<<"d", "e", "v", "e", "l", "o", "p", "e", "d", " ", "u", "s", "i", "n", "g">>),
                      Lit(<<"i", "m", "p", "l", "e", "m", "e", "n", "t", "e", "d", " ", "w", "i", "t", "h">>),
                      Lit(<<"u", "s", "i", "n", "g">>),
                      Lit(<<"w", "i", "t", "h">>),
                      Lit(<<"f", "r", "a", "m", "e", "w", "o", "r", "k">>),
                      Lit(<<"l", "i", "b", "r", "a", "r", "y">>),
                      Lit(<<"t", "e", "c", "h", "n", "o", "l", "o", "g", "i", "e", "s", " ", "u", "s", "e", "d">>)>>),
                    Star(Set(SpaceChars)),
                    Opt(Lit(<<":">>))>>),
                  {"i"}, 0), lines[k])},
      LAMBDA techLines :
  Let(IF techLines = {} THEN -1 ELSE (CHOOSE k \in techLines : \A j \in techLines : k <= j) - 1,
      LAMBDA techLineIndex :
    IF techLineIndex > 0
    THEN Project(Trim(lines[1]),
                 Trim(Join(SubSeq(lines, 2, techLineIndex), <<" ">>)),
                 Let(Match(lines[techLineIndex + 1], RegExp(Cat(<<
                            Alt(<<Lit(<<":">>), Lit(<<"-">>)>>),
                            Star(Set(SpaceChars)),
                            Grp(1, Plus(NSet({"\n", "\r"}))),
                            EOL>>),
                          {}, 1)),
                     LAMBDA techMatch :
                   IF techMatch.ok THEN Trim(techMatch.g[1])
                   ELSE Trim(ReplaceFirst(lines[techLineIndex + 1],
                                          RegExp(Cat(<<
                                                     LazyInf(NSet({"\n", "\r"}), 0),
                                                     Alt(<<Lit(<<":">>), Lit(<<"-">>)>>),
                                                     Star(Set(SpaceChars))>>),
                                                   {"i"}, 0), <<>>))),
                 block, block)
    ELSE Project(Trim(lines[1]), Trim(Join(SubSeq(lines, 2, Len(lines)), <<" ">>)), <<>>,
                 block, block))))
\* lines 1005-1055: the projects of the blocks between blank lines
ProjectPattern3(projectsSection) ==
  Map(SelectSeq(Split(projectsSection, RegExp(Cat(<<Lit(<<"\n">>), Star(Set(SpaceChars)), Lit(<<"\n">>)>>), {}, 0)),
                LAMBDA block : Trim(block) # <<>> /\ Len(SplitLines(block)) >= 2),
      ProjectBlock)

\* lines 1064-1105: the project of one match of dateProjectRegex, where
\* nextMatch is what the look-ahead exec of line 1071 returned
ProjectPattern4(projectsSection, dateMatch, nextMatch) ==
  Let(Trim(Substring(projectsSection, dateMatch.end,
                     IF nextMatch.ok THEN nextMatch.index ELSE Len(projectsSection))),
      LAMBDA projectContent :
  Let(Match(projectContent, techIndicator), LAMBDA techMatch :
    Project(Trim(dateMatch.g[1]),
            Trim(ReplaceString(projectContent,
                               IF techMatch.ok THEN techMatch.all ELSE <<>>, <<>>)),
            IF techMatch.ok THEN Trim(techMatch.g[1]) ELSE <<>>,
            projectContent, Trim(dateMatch.g[2]))))

\* a placeholder of another name
defaultProjectUntitled ==
  [name |-> <<"U", "n", "t", "i", "t", "l", "e", "d">>,
   description |-> <<"P", "l", "e", "a", "s", "e", " ", "a", "d", "d", " ", "y", "o", "u", "r", " ", "p", "r", "o", "j", "e", "c", "t", " ", "d", "e", "s", "c", "r", "i", "p", "t", "i", "o", "n", " ", "h", "e", "r", "e">>,
   technologies |-> <<>>, githubLink |-> <<>>, liveLink |-> <<>>,
   startDate |-> <<>>, endDate |-> <<>>, role |-> <<>>]
\* lines 1112-1121
defaultProject ==
  [name |-> <<"P", "r", "o", "j", "e", "c", "t">>,
   description |-> <<"P", "l", "e", "a", "s", "e", " ", "a", "d", "d", " ", "y", "o", "u", "r", " ", "p", "r", "o", "j", "e", "c", "t", " ", "d", "e", "s", "c", "r", "i", "p", "t", "i", "o", "n", " ", "h", "e", "r", "e">>,
   technologies |-> <<>>, githubLink |-> <<>>, liveLink |-> <<>>,
   startDate |-> <<>>, endDate |-> <<>>, role |-> <<>>]

(***************************************************************************)
(* extractWorkExperience: the patterns of its four strategies and what     *)
(* each strategy makes of one match.                                       *)
(***************************************************************************)
experienceHeaders ==
  <<<<"e", "x", "p", "e", "r", "i", "e", "n", "c", "e">>, <<"w", "o", "r", "k", " ", "e", "x", "p", "e", "r", "i", "e", "n", "c", "e">>, <<"e", "m", "p", "l", "o", "y", "m", "e", "n", "t", " ", "h", "i", "s", "t", "o", "r", "y">>,
    <<"p", "r", "o", "f", "e", "s", "s", "i", "o", "n", "a", "l", " ", "e", "x", "p", "e", "r", "i", "e", "n", "c", "e">>, <<"w", "o", "r", "k", " ", "h", "i", "s", "t", "o", "r", "y">>, <<"c", "a", "r", "e", "e", "r", " ", "h", "i", "s", "t", "o", "r", "y">>,
    <<"p", "r", "o", "f", "e", "s", "s", "i", "o", "n", "a", "l", " ", "b", "a", "c", "k", "g", "r", "o", "u", "n", "d">>, <<"e", "m", "p", "l", "o", "y", "m", "e", "n", "t", " ", "r", "e", "c", "o", "r", "d">>, <<"j", "o", "b", " ", "h", "i", "s", "t", "o", "r", "y">>,
    <<"p", "r", "o", "f", "e", "s", "s", "i", "o", "n", "a", "l", " ", "a", "p", "p", "o", "i", "n", "t", "m", "e", "n", "t", "s">>, <<"a", "c", "a", "d", "e", "m", "i", "c", " ", "p", "o", "s", "i", "t", "i", "o", "n", "s">>, <<"t", "e", "a", "c", "h", "i", "n", "g", " ", "e", "x", "p", "e", "r", "i", "e", "n", "c", "e">>,
    <<"r", "e", "s", "e", "a", "r", "c", "h", " ", "e", "x", "p", "e", "r", "i", "e", "n", "c", "e">>, <<"i", "n", "d", "u", "s", "t", "r", "y", " ", "e", "x", "p", "e", "r", "i", "e", "n", "c", "e">>>>
companyLabeledRegex ==
  RegExp(Cat(<<
             Alt(<<
               Lit(<<"c", "o", "m", "p", "a", "n", "y">>),
               Lit(<<"e", "m", "p", "l", "o", "y", "e", "r">>),
               Lit(<<"o", "r", "g", "a", "n", "i", "z", "a", "t", "i", "o", "n">>),
               Lit(<<"f", "i", "r", "m">>),
               Lit(<<"i", "n", "s", "t", "i", "t", "u", "t", "i", "o", "n">>),
               Lit(<<"u", "n", "i", "v", "e", "r", "s", "i", "t", "y">>),
               Lit(<<"c", "o", "l", "l", "e", "g", "e">>)>>),
             Star(Set(SpaceChars)),
             Opt(Lit(<<":">>)),
             Star(Set(SpaceChars)),
             Grp(1, Plus(NSet({"\n"})))>>),
           {"i"}, 1)
companyDateRegex ==
  RegExp(Cat(<<
             Opt(Set({Bullet, "-", "*"})),
             Star(Set(SpaceChars)),
             Grp(1, Cat(<<Set(UpperSet), Plus(NSet({"\n", ","}))>>)),
             Alt(<<
               Plus(Set(SpaceChars \cup {","})),
               Cat(<<Star(Set(SpaceChars)), Lit(<<"(">>)>>),
               Cat(<<Star(Set(SpaceChars)), Lit(<<"-">>), Star(Set(SpaceChars))>>)>>),
             Opt(Cat(<<Plus(Set(UpperSet \cup LowerSet)), Plus(Set(SpaceChars))>>)),
             Alt(<<
               Cat(<<Alt(<<Lit(<<"1", "9">>), Lit(<<"2", "0">>)>>), Rep(Set(Digits), 2, 2)>>),
               Alt(<<
                 Lit(<<"J", "a", "n">>),
                 Lit(<<"F", "e", "b">>),
                 Lit(<<"M", "a", "r">>),
                 Lit(<<"A", "p", "r">>),
                 Lit(<<"M", "a", "y">>),
                 Lit(<<"J", "u", "n">>),
                 Lit(<<"J", "u", "l">>),
                 Lit(<<"A", "u", "g">>),
                 Lit(<<"S", "e", "p">>),
                 Lit(<<"O", "c", "t">>),
                 Lit(<<"N", "o", "v">>),
                 Lit(<<"D", "e", "c">>),
                 Lit(<<"J", "a", "n", "u", "a", "r", "y">>),
                 Lit(<<"F", "e", "b", "r", "u", "a", "r", "y">>),
                 Lit(<<"M", "a", "r", "c", "h">>),
                 Lit(<<"A", "p", "r", "i", "l">>),
                 Lit(<<"M", "a", "y">>),
                 Lit(<<"J", "u", "n", "e">>),
                 Lit(<<"J", "u", "l", "y">>),
                 Lit(<<"A", "u", "g", "u", "s", "t">>),
                 Lit(<<"S", "e", "p", "t", "e", "m", "b", "e", "r">>),
                 Lit(<<"O", "c", "t", "o", "b", "e", "r">>),
                 Lit(<<"N", "o", "v", "e", "m", "b", "e", "r">>),
                 Lit(<<"D", "e", "c", "e", "m", "b", "e", "r">>)>>)>>)>>),
           {}, 1)
academicPositionRegex ==
  RegExp(Cat(<<
             Alt(<<
               Lit(<<"p", "r", "o", "f", "e", "s", "s", "o", "r">>),
               Lit(<<"l", "e", "c", "t", "u", "r", "e", "r">>),
               Lit(<<"i", "n", "s", "t", "r", "u", "c", "t", "o", "r">>),
               Lit(<<"r", "e", "s", "e", "a", "r", "c", "h", "e", "r">>),
               Lit(<<"f", "e", "l", "l", "o", "w">>),
               Lit(<<"a", "s", "s", "i", "s", "t", "a", "n", "t">>),
               Lit(<<"a", "s", "s", "o", "c", "i", "a", "t", "e">>),
               Lit(<<"a", "d", "j", "u", "n", "c", "t">>),
               Lit(<<"p", "o", "s", "t", "d", "o", "c">>),
               Lit(<<"p", "o", "s", "t", "-", "d", "o", "c">>),
               Lit(<<"t", "e", "a", "c", "h", "i", "n", "g", " ", "a", "s", "s", "i", "s", "t", "a", "n", "t">>),
               Lit(<<"r", "e", "s", "e", "a", "r", "c", "h", " ", "a", "s", "s", "i", "s", "t", "a", "n", "t">>)>>),
             Plus(Set(SpaceChars)),
             Alt(<<Lit(<<"a", "t">>), Lit(<<"o", "f">>), Lit(<<"i", "n">>)>>),
             Plus(Set(SpaceChars)),
             Grp(1, Plus(NSet({"\n", ","})))>>),
           {"i"}, 1)
\* /\s*(?:-|to|U+2013|U+2014)\s*/ of the date pattern of line 1271
dateSeparator ==
  Cat(<<Star(Set(SpaceChars)),
        Alt(<<Lit(<<"-">>), Lit(<<"t", "o">>), Lit(<<EnDash>>), Lit(<<EmDash>>)>>),
        Star(Set(SpaceChars))>>)

\* s.replace(re, '') when cond holds, s otherwise
ReplaceIf(cond, s, re) == IF cond THEN ReplaceFirst(s, re, <<>>) ELSE s

\* lines 1233-1289: the experience of one match of companyLabeledRegex.  A
\* text that escapeRegExp has escaped, and a date that has no pattern
\* character, stands in the built pattern for itself.
WorkPattern1(experienceSection, match1) ==
  Let(IndexOf(experienceSection, <<"c", "o", "m", "p", "a", "n", "y">>, match1.end), LAMBDA nextCompany :
  Let(Trim(Substring(experienceSection, match1.end,
                     IF nextCompany > -1 THEN nextCompany ELSE Len(experienceSection))),
      LAMBDA experienceBlock :
  Let([position |-> extractPattern(experienceBlock, RegExp(Cat(<<
             Alt(<<
               Lit(<<"p", "o", "s", "i", "t", "i", "o", "n">>),
               Lit(<<"t", "i", "t", "l", "e">>),
               Lit(<<"r", "o", "l", "e">>),
               Lit(<<"d", "e", "s", "i", "g", "n", "a", "t", "i", "o", "n">>),
               Lit(<<"j", "o", "b", " ", "t", "i", "t", "l", "e">>)>>),
             Star(Set(SpaceChars)),
             Opt(Lit(<<":">>)),
             Star(Set(SpaceChars)),
             Grp(1, Plus(NSet({"\n", ","})))>>),
           {"i"}, 1)),
       duration |-> extractPattern(experienceBlock, RegExp(Cat(<<
                  Alt(<<
                    Lit(<<"d", "u", "r", "a", "t", "i", "o", "n">>),
                    Lit(<<"p", "e", "r", "i", "o", "d">>),
                    Lit(<<"t", "i", "m", "e", "f", "r", "a", "m", "e">>)>>),
                  Star(Set(SpaceChars)),
                  Opt(Lit(<<":">>)),
                  Star(Set(SpaceChars)),
                  Grp(1, Plus(NSet({"\n", ","})))>>),
                {"i"}, 1)),
       location |-> extractPattern(experienceBlock, RegExp(Cat(<<
                  Alt(<<
                    Lit(<<"l", "o", "c", "a", "t", "i", "o", "n">>),
                    Lit(<<"p", "l", "a", "c", "e">>),
                    Lit(<<"c", "i", "t", "y">>),
                    Lit(<<"s", "i", "t", "e">>),
                    Lit(<<"a", "d", "d", "r", "e", "s", "s">>)>>),
                  Star(Set(SpaceChars)),
                  Opt(Lit(<<":">>)),
                  Star(Set(SpaceChars)),
                  Grp(1, Plus(NSet({"\n", ","})))>>),
                {"i"}, 1)),
       dateRange |-> extractDateRange(experienceBlock),
       respMatch |-> Match(experienceBlock, RegExp(Cat(<<
                  Alt(<<
                    Lit(<<"r", "e", "s", "p", "o", "n", "s", "i", "b", "i", "l", "i", "t", "i", "e", "s">>),
                    Lit(<<"d", "u", "t", "i", "e", "s">>),
                    Lit(<<"t", "a", "s", "k", "s">>),
                    Lit(<<"k", "e", "y", " ", "r", "e", "s", "p", "o", "n", "s", "i", "b", "i", "l", "i", "t", "i", "e", "s">>)>>),
                  Star(Set(SpaceChars)),
                  Opt(Lit(<<":">>)),
                  Star(Set(SpaceChars)),
                  Grp(1, Cat(<<Plus(NSet({"\n"})), Star(Cat(<<Lit(<<"\n">>), Plus(NSet({"\n"}))>>))>>))>>),
                {"i"}, 1)),
       achieveMatch |-> Match(experienceBlock, RegExp(Cat(<<
                  Alt(<<
                    Lit(<<"a", "c", "h", "i", "e", "v", "e", "m", "e", "n", "t", "s">>),
                    Lit(<<"a", "c", "c", "o", "m", "p", "l", "i", "s", "h", "m", "e", "n", "t", "s">>),
                    Lit(<<"k", "e", "y", " ", "a", "c", "h", "i", "e", "v", "e", "m", "e", "n", "t", "s">>),
                    Lit(<<"r", "e", "s", "u", "l", "t", "s">>)>>),
                  Star(Set(SpaceChars)),
                  Opt(Lit(<<":">>)),
                  Star(Set(SpaceChars)),
                  Grp(1, Cat(<<Plus(NSet({"\n"})), Star(Cat(<<Lit(<<"\n">>), Plus(NSet({"\n"}))>>))>>))>>),
                {"i"}, 1))],
      LAMBDA found :
    [company |-> Trim(match1.g[1]),
     position |-> found.position,
     startDate |-> found.dateRange.startDate,
     endDate |-> found.dateRange.endDate,
     duration |-> found.duration,
     location |-> found.location,
     description |->
       Trim(ReplaceString(ReplaceString(
         ReplaceIf(found.dateRange.startDate # <<>> \/ found.dateRange.endDate # <<>>,
           ReplaceIf(found.location # <<>>,
             ReplaceIf(found.duration # <<>>,
               ReplaceIf(found.position # <<>>,
                 experienceBlock,
                 RegExp(Cat(<<Alt(<<Lit(<<"p", "o", "s", "i", "t", "i", "o", "n">>), Lit(<<"t", "i", "t", "l", "e">>), Lit(<<"r", "o", "l", "e">>),
                                    Lit(<<"d", "e", "s", "i", "g", "n", "a", "t", "i", "o", "n">>), Lit(<<"j", "o", "b", " ", "t", "i", "t", "l", "e">>)>>),
                              Star(Set(SpaceChars)), Opt(Lit(<<":">>)), Star(Set(SpaceChars)),
                              Lit(found.position)>>), {"i"}, 0)),
               RegExp(Cat(<<Alt(<<Lit(<<"d", "u", "r", "a", "t", "i", "o", "n">>), Lit(<<"p", "e", "r", "i", "o", "d">>), Lit(<<"t", "i", "m", "e", "f", "r", "a", "m", "e">>)>>),
                            Star(Set(SpaceChars)), Opt(Lit(<<":">>)), Star(Set(SpaceChars)),
                            Lit(found.duration)>>), {"i"}, 0)),
             RegExp(Cat(<<Alt(<<Lit(<<"l", "o", "c", "a", "t", "i", "o", "n">>), Lit(<<"p", "l", "a", "c", "e">>), Lit(<<"c", "i", "t", "y">>),
                                Lit(<<"s", "i", "t", "e">>), Lit(<<"a", "d", "d", "r", "e", "s", "s">>)>>),
                          Star(Set(SpaceChars)), Opt(Lit(<<":">>)), Star(Set(SpaceChars)),
                          Lit(found.location)>>), {"i"}, 0)),
           RegExp(IF found.dateRange.endDate # <<>>
                  THEN Cat(<<Lit(found.dateRange.startDate), dateSeparator,
                             Lit(found.dateRange.endDate)>>)
                  ELSE Alt(<<Cat(<<Lit(found.dateRange.startDate), dateSeparator,
                                   Lit(<<"p", "r", "e", "s", "e", "n", "t">>)>>),
                             Lit(<<"c", "u", "r", "r", "e", "n", "t">>), Lit(<<"n", "o", "w">>)>>), {"i"}, 0)),
         IF found.respMatch.ok THEN found.respMatch.all ELSE <<>>, <<>>),
         IF found.achieveMatch.ok THEN found.achieveMatch.all ELSE <<>>, <<>>)),
     responsibilities |-> IF found.respMatch.ok THEN Trim(found.respMatch.g[1]) ELSE <<>>,
     achievements |-> IF found.achieveMatch.ok THEN Trim(found.achieveMatch.g[1]) ELSE <<>>
    ])))

\* lines 1322-1349, 1419-1446 and 1502-1507: the location, responsibilities
\* and achievements of an experience block
BlockDetails(experienceBlock) ==
  Let([locationMatch |-> Match(experienceBlock, RegExp(Cat(<<
             Alt(<<
               Cat(<<Lit(<<",">>), Star(Set(SpaceChars))>>),
               Lit(<<"\n">>),
               Cat(<<Plus(Set(SpaceChars)), Lit(<<"a", "t">>), Plus(Set(SpaceChars))>>),
               Cat(<<Plus(Set(SpaceChars)), Lit(<<"i", "n">>), Plus(Set(SpaceChars))>>)>>),
             Grp(1, Cat(<<Set(UpperSet), Plus(Set(LowerSet \cup UpperSet \cup SpaceChars \cup {","}))>>)),
             Alt(<<Lit(<<".">>), Lit(<<"\n">>), EOL>>)>>),
           {"i"}, 1)),
       respMatch |-> Match(experienceBlock, RegExp(Cat(<<
                  Alt(<<
                    Lit(<<"r", "e", "s", "p", "o", "n", "s", "i", "b", "i", "l", "i", "t", "i", "e", "s">>),
                    Lit(<<"d", "u", "t", "i", "e", "s">>),
                    Lit(<<"t", "a", "s", "k", "s">>),
                    Lit(<<"k", "e", "y", " ", "r", "e", "s", "p", "o", "n", "s", "i", "b", "i", "l", "i", "t", "i", "e", "s">>)>>),
                  Star(Set(SpaceChars)),
                  Opt(Lit(<<":">>)),
                  Star(Set(SpaceChars)),
                  Grp(1, Cat(<<Plus(NSet({"\n"})), Star(Cat(<<Lit(<<"\n">>), Plus(NSet({"\n"}))>>))>>))>>),
                {"i"}, 1)),
       achieveMatch |-> Match(experienceBlock, RegExp(Cat(<<
                  Alt(<<
                    Lit(<<"a", "c", "h", "i", "e", "v", "e", "m", "e", "n", "t", "s">>),
                    Lit(<<"a", "c", "c", "o", "m", "p", "l", "i", "s", "h", "m", "e", "n", "t", "s">>),
                    Lit(<<"k", "e", "y", " ", "a", "c", "h", "i", "e", "v", "e", "m", "e", "n", "t", "s">>),
                    Lit(<<"r", "e", "s", "u", "l", "t", "s">>)>>),
                  Star(Set(SpaceChars)),
                  Opt(Lit(<<":">>)),
                  Star(Set(SpaceChars)),
                  Grp(1, Cat(<<Plus(NSet({"\n"})), Star(Cat(<<Lit(<<"\n">>), Plus(NSet({"\n"}))>>))>>))>>),
                {"i"}, 1))],
      LAMBDA found :
    [location |-> IF found.locationMatch.ok THEN Trim(found.locationMatch.g[1]) ELSE <<>>,
     responsibilities |->
       IF found.respMatch.ok THEN Trim(found.respMatch.g[1])
       ELSE Join(Map(MatchAll(experienceBlock, RegExp(Cat(<<
                  Set({Bullet, "-", "*"}),
                  Star(Set(SpaceChars)),
                  Grp(1, Plus(NSet({"\n", Bullet, "-", "*"})))>>),
                {}, 1)),
                     LAMBDA point : Trim(ReplaceFirst(point, RegExp(Cat(<<BOL, Set({Bullet, "-", "*"}), Star(Set(SpaceChars))>>), {}, 0), <<>>))),
                 <<"\n">>),
     achievements |-> IF found.achieveMatch.ok THEN Trim(found.achieveMatch.g[1]) ELSE <<>>])

\* lines 1365-1386 and 1451-1472: the experience record of strategies 2 and
\* 3 from the description before its bullets are removed
Experience(company, position, dateRange, details, description) ==
  Let(Trim(ReplaceAll(description, RegExp(Cat(<<BOL, Set({Bullet, "-", "*"}), Star(Set(SpaceChars))>>), {"m"}, 0), <<>>)), LAMBDA cleaned :
  Let(IF cleaned = <<>> /\ details.responsibilities # <<>>
      THEN SplitLines(details.responsibilities)[1] ELSE <<>>, LAMBDA firstBullet :
    [company |-> company,
     position |-> position,
     startDate |-> dateRange.startDate,
     endDate |-> dateRange.endDate,
     location |-> details.location,
     description |-> IF firstBullet # <<>> THEN firstBullet ELSE cleaned,
     responsibilities |->
       IF firstBullet # <<>>
       THEN Trim(ReplaceString(details.responsibilities, firstBullet, <<>>))
       ELSE details.responsibilities,
     achievements |-> details.achievements]))

\* lines 1298-1386: the experience of one match of companyDateRegex
WorkPattern2(experienceSection, match2) ==
  Let(ExecFrom(RegExp(Cat(<<
             Opt(Set({Bullet, "-", "*"})),
             Star(Set(SpaceChars)),
             Set(UpperSet),
             Plus(NSet({"\n", ","})),
             Alt(<<
               Plus(Set(SpaceChars \cup {","})),
               Cat(<<Star(Set(SpaceChars)), Lit(<<"(">>)>>),
               Cat(<<Star(Set(SpaceChars)), Lit(<<"-">>), Star(Set(SpaceChars))>>)>>),
             Opt(Cat(<<Plus(Set(UpperSet \cup LowerSet)), Plus(Set(SpaceChars))>>)),
             Alt(<<
               Cat(<<Alt(<<Lit(<<"1", "9">>), Lit(<<"2", "0">>)>>), Rep(Set(Digits), 2, 2)>>),
               Alt(<<
                 Lit(<<"J", "a", "n">>),
                 Lit(<<"F", "e", "b">>),
                 Lit(<<"M", "a", "r">>),
                 Lit(<<"A", "p", "r">>),
                 Lit(<<"M", "a", "y">>),
                 Lit(<<"J", "u", "n">>),
                 Lit(<<"J", "u", "l">>),
                 Lit(<<"A", "u", "g">>),
                 Lit(<<"S", "e", "p">>),
                 Lit(<<"O", "c", "t">>),
                 Lit(<<"N", "o", "v">>),
                 Lit(<<"D", "e", "c">>),
                 Lit(<<"J", "a", "n", "u", "a", "r", "y">>),
                 Lit(<<"F", "e", "b", "r", "u", "a", "r", "y">>),
                 Lit(<<"M", "a", "r", "c", "h">>),
                 Lit(<<"A", "p", "r", "i", "l">>),
                 Lit(<<"M", "a", "y">>),
                 Lit(<<"J", "u", "n", "e">>),
                 Lit(<<"J", "u", "l", "y">>),
                 Lit(<<"A", "u", "g", "u", "s", "t">>),
                 Lit(<<"S", "e", "p", "t", "e", "m", "b", "e", "r">>),
                 Lit(<<"O", "c", "t", "o", "b", "e", "r">>),
                 Lit(<<"N", "o", "v", "e", "m", "b", "e", "r">>),
                 Lit(<<"D", "e", "c", "e", "m", "b", "e", "r">>)>>)>>)>>),
           {}, 0), experienceSection, match2.end),
      LAMBDA nextMatch :
  Let(Trim(Substring(experienceSection, match2.end,
                     IF nextMatch.ok THEN nextMatch.index ELSE Len(experienceSection))),
      LAMBDA experienceBlock :
  Let([positionMatch |-> Match(experienceBlock, RegExp(Cat(<<
             BOL,
             Grp(1, LazyInf(NSet({"\n", ","}), 1)),
             Alt(<<
               Lit(<<",">>),
               Lit(<<"\n">>),
               RepInf(Set(SpaceChars), 2),
               Cat(<<Plus(Set(SpaceChars)), Lit(<<"a", "t">>), Plus(Set(SpaceChars))>>),
               Cat(<<Plus(Set(SpaceChars)), Lit(<<"i", "n">>), Plus(Set(SpaceChars))>>)>>)>>),
           {"i"}, 1)),
       dateRange |-> extractDateRange(experienceBlock),
       details |-> BlockDetails(experienceBlock),
       firstLineEnd |-> IndexOf(experienceBlock, <<"\n">>, 0)],
      LAMBDA found :
  Let(IF found.positionMatch.ok THEN Trim(found.positionMatch.g[1]) ELSE <<>>,
      LAMBDA position :
    Experience(Trim(match2.g[1]), position, found.dateRange, found.details,
      IF found.firstLineEnd > -1
      THEN Trim(Substring(experienceBlock, found.firstLineEnd, Len(experienceBlock)))
      ELSE IF position # <<>> \/ found.dateRange.startDate # <<>>
              \/ found.details.location # <<>>
      THEN Let(Match(experienceBlock,
                     RegExp(Cat(<<BOL, Lit(position),
                                  LazyInf(NSet({"\n", "\r"}), 0),
                                  Lit(found.dateRange.startDate),
                                  LazyInf(NSet({"\n", "\r"}), 0),
                                  Lit(found.dateRange.endDate),
                                  LazyInf(NSet({"\n", "\r"}), 0),
                                  Lit(found.details.location)>>), {"i"}, 0)),
               LAMBDA metadataMatch :
             IF metadataMatch.ok
             THEN Trim(Substring(experienceBlock, Len(metadataMatch.all),
                                 Len(experienceBlock)))
             ELSE experienceBlock)
      ELSE experienceBlock)))))

\* lines 1395-1472: the experience of one block of two or more lines
ExperienceBlock(block) ==
  Let(SplitLines(block), LAMBDA lines :
  Let([positionAtCompanyMatch |-> Match(Trim(lines[1]), RegExp(Cat(<<
             Grp(1, LazyInf(NSet({"\n", "\r"}), 1)),
             Plus(Set(SpaceChars)),
             Alt(<<Lit(<<"a", "t">>), Lit(<<"@">>)>>),
             Plus(Set(SpaceChars)),
             Grp(2, Plus(NSet({"\n", "\r"})))>>),
           {"i"}, 2)),
       companyDashPositionMatch |-> Match(Trim(lines[1]), RegExp(Cat(<<
                  Grp(1, LazyInf(NSet({"\n", "\r"}), 1)),
                  Star(Set(SpaceChars)),
                  Set({"-", EnDash, EmDash}),
                  Star(Set(SpaceChars)),
                  Grp(2, Plus(NSet({"\n", "\r"})))>>),
                {"i"}, 2))],
      LAMBDA found :
    Experience(
      IF found.positionAtCompanyMatch.ok THEN Trim(found.positionAtCompanyMatch.g[2])
      ELSE IF found.companyDashPositionMatch.ok THEN Trim(found.companyDashPositionMatch.g[1])
      ELSE Trim(lines[1]),
      IF found.positionAtCompanyMatch.ok THEN Trim(found.positionAtCompanyMatch.g[1])
      ELSE IF found.companyDashPositionMatch.ok THEN Trim(found.companyDashPositionMatch.g[2])
      ELSE <<>>,
      extractDateRange(block), BlockDetails(block),
      Trim(Join(SubSeq(lines, 2, Len(lines)), <<"\n">>)))))
\* lines 1392-1475: the experiences of the blocks between blank lines
WorkPattern3(experienceSection) ==
  Map(SelectSeq(Split(experienceSection, RegExp(Cat(<<Lit(<<"\n">>), Star(Set(SpaceChars)), Lit(<<"\n">>)>>), {}, 0)),
                LAMBDA block : Trim(block) # <<>> /\ Len(SplitLines(block)) >= 2),
      ExperienceBlock)

\* lines 1484-1524: the experience of one match of academicPositionRegex,
\* where nextMatch is what the look-ahead exec of line 1491 returned
WorkPattern4(experienceSection, academicMatch, nextMatch) ==
  Let(Trim(Substring(experienceSection, academicMatch.end,
                     IF nextMatch.ok THEN nextMatch.index ELSE Len(experienceSection))),
      LAMBDA experienceBlock :
  Let(extractDateRange(experienceBlock), LAMBDA dateRange :
    [company |-> Trim(academicMatch.g[1]),
     position |-> Trim(Split(academicMatch.all, RegExp(Cat(<<
                Plus(Set(SpaceChars)),
                Alt(<<Lit(<<"a", "t">>), Lit(<<"o", "f">>), Lit(<<"i", "n">>)>>),
                Plus(Set(SpaceChars))>>),
              {}, 0))[1]),
     startDate |-> dateRange.startDate,
     endDate |-> dateRange.endDate,
     location |-> BlockDetails(experienceBlock).location,
     description |-> Trim(ReplaceAll(experienceBlock, RegExp(Cat(<<BOL, Set({Bullet, "-", "*"}), Star(Set(SpaceChars))>>), {"m"}, 0), <<>>)),
     responsibilities |-> <<>>,
     achievements |-> <<>>]))

\* lines 1531-1540
defaultExperience ==
  [company |-> <<>>, position |-> <<>>, startDate |-> <<>>, endDate |-> <<>>,
   location |-> <<>>, description |-> <<>>, responsibilities |-> <<>>,
   achievements |-> <<>>]

(***************************************************************************)
(* The state: the text handed to the function under analysis and the year  *)
(* of its clock, the point the function has reached, the value it has      *)
(* returned, and the records the calls of extractInformation have returned *)
(* so far; of extractInformation the record it builds, and of              *)
(* extractProjects and extractWorkExperience the section, the two arrays,  *)
(* and the lastIndex and the last match of the pattern of the loop the     *)
(* function is in.                                                         *)
(***************************************************************************)
VARIABLES text, year, pc, ret, returned, data, section, projects, workExperiences,
          lastIndex, match

\* The state of the two hooks of the application form.  Of
\* useMultiStepApplication: the steps option, currentStep and draftLoaded,
\* the draft kept for the user and the job, whether fetchDraft is waiting
\* for loadDraft, and the number of validations nextStep is waiting for.  Of
\* useApplicationSubmission: isSubmitting, isUploading, progress, error and
\* draftId.
VARIABLES steps, currentStep, draftLoaded, draft, fetching, validating,
          isSubmitting, isUploading, progress, error, draftId

hooks == <<steps, currentStep, draftLoaded, draft, fetching, validating,
           isSubmitting, isUploading, progress, error, draftId>>
vars == <<text, year, pc, ret, returned, data, section, projects, workExperiences,
          lastIndex, match, hooks>>
locals == <<section, projects, workExperiences, lastIndex, match>>

\* the record before its properties are evaluated: each one empty
NoData ==
  [firstName |-> <<>>, middleName |-> <<>>, lastName |-> <<>>, email |-> <<>>,
   contactNumber |-> <<>>, linkedinUrl |-> <<>>, githubUrl |-> <<>>, portfolioUrl |-> <<>>,
   address |-> <<>>, collegeName |-> <<>>, degree |-> <<>>, universityName |-> <<>>,
   specialization |-> <<>>, graduationYear |-> <<>>, startYear |-> <<>>, endYear |-> <<>>,
   location |-> <<>>, cgpa |-> <<>>, skills |-> <<>>, technicalSkills |-> <<>>,
   softSkills |-> <<>>, languages |-> <<>>, projects |-> <<>>, workExperiences |-> <<>>,
   certifications |-> <<>>, experience |-> 0, educationLevel |-> <<>>]
\* before the call
\* no draft kept
NoDraft == [id |-> "null", currentStep |-> -1]
\* before either hook is rendered
Unmounted ==
  /\ steps = <<>>
  /\ currentStep = 0
  /\ draftLoaded = FALSE
  /\ draft = NoDraft
  /\ fetching = FALSE
  /\ validating = 0
  /\ isSubmitting = FALSE
  /\ isUploading = FALSE
  /\ progress = 0
  /\ error = "null"
  /\ draftId = "null"
Idle ==
  /\ Unmounted
  /\ pc = "idle"
  /\ ret = Null
  /\ returned = <<>>
  /\ data = NoData
  /\ section = <<>>
  /\ projects = <<>>
  /\ workExperiences = <<>>
  /\ lastIndex = 0
  /\ match = NoMatch

(***************************************************************************)
(* extractName and parseFullName applied to texts made of a lead, a name   *)
(* of 1..MaxNameTokens tokens and a trail.                                 *)
(***************************************************************************)
MaxNameTokens == 3
NameTokens ==
  {<<"J", "a", "n", "e">>,
   <<"Q", ".">>,
   <<"P", "u", "b", "l", "i", "c">>}
NameSpaces ==
  {<<" ">>,
   <<" ", "\t">>}
NameLeads ==
  {<<>>,
   <<"N", "a", "m", "e", ":", " ">>,
   <<"C", "o", "n", "t", "a", "c", "t", "\n", "a", "t", " ">>,
   <<"s", "e", "e", " ">>}
NameTrails ==
  {<<>>,
   <<"\n", "S", "o", "f", "t", "w", "a", "r", "e", " ", "E", "n", "g", "i", "n", "e", "e", "r">>}
RECURSIVE TokenSeqs(_)
TokenSeqs(n) ==
  IF n = 0 THEN {<<>>} ELSE {<<t>> \o ts : t \in NameTokens, ts \in TokenSeqs(n - 1)}
FullNames ==
  {Join(ts, sp) : ts \in UNION {TokenSeqs(n) : n \in 1..MaxNameTokens}, sp \in NameSpaces}
NameTexts == {lead \o name \o trail : lead \in NameLeads, name \in FullNames, trail \in NameTrails}

NameInit == text \in NameTexts /\ year \in {2025} /\ Idle
ExtractName ==
  /\ pc = "idle"
  /\ ret' = extractName(text)
  /\ pc' = "extractName"
  /\ UNCHANGED <<hooks, text, year, returned, data, locals>>
ParseFullName ==
  /\ pc = "idle"
  /\ ret' = parseFullName(text)
  /\ pc' = "parseFullName"
  /\ UNCHANGED <<hooks, text, year, returned, data, locals>>
NameNext == ExtractName \/ ParseFullName
NameSpec == NameInit /\ [][NameNext]_vars

\* the words of s: its maximal runs of characters that are not white space
RECURSIVE Tokens(_)
Tokens(s) ==
  Let(TrimStart(s), LAMBDA t :
    IF t = <<>> THEN <<>>
    ELSE Let({k \in 1..Len(t) : t[k] \in SpaceChars} \cup {Len(t) + 1}, LAMBDA stops :
         Let(CHOOSE k \in stops : \A j \in stops : k <= j, LAMBDA stop :
           <<SubSeq(t, 1, stop - 1)>> \o Tokens(SubSeq(t, stop, Len(t))))))
\* the name record the splitting rule gives for a sequence of words
SplitRule(tokens) ==
  IF tokens = <<>> THEN NoName
  ELSE IF Len(tokens) = 1 THEN [firstName |-> tokens[1], middleName |-> <<>>, lastName |-> <<>>]
  ELSE IF Len(tokens) = 2
  THEN [firstName |-> tokens[1], middleName |-> <<>>, lastName |-> tokens[2]]
  ELSE [firstName |-> tokens[1],
        middleName |-> Join(SubSeq(tokens, 2, Len(tokens) - 1), <<" ">>),
        lastName |-> tokens[Len(tokens)]]
IsCapitalized(t) ==
  Len(t) >= 2 /\ t[1] \in UpperSet /\ \A k \in 2..Len(t) : t[k] \in LowerSet \cup UpperSet
IsInitial(t) == Len(t) = 2 /\ t[1] \in UpperSet /\ t[2] = "."

\* C6: when the text begins with a standalone line holding a three-token
\* name whose middle token is an initial followed by a period ("Jane Q.
\* Public"), extractName returns firstName = the first token, middleName =
\* the initial with its period and lastName = the last token.
C6_InitialedName ==
  pc = "extractName" =>
    Let(Tokens(Head(SplitLines(text))), LAMBDA line :
      (Len(line) = 3 /\ IsCapitalized(line[1]) /\ IsInitial(line[2]) /\ IsCapitalized(line[3]))
        => ret = [firstName |-> line[1], middleName |-> line[2], lastName |-> line[3]])

\* C7: whichever of the four strategies detects the full name, the result is
\* the whitespace split of that name (one word: firstName only; two words:
\* firstName and lastName; three or more: first word, interior words joined
\* by single spaces, last word), and the record the fallback strategy builds
\* from its groups is the one parseFullName gives for the matched text.
C7_SplitRule ==
  /\ pc = "parseFullName" => ret = SplitRule(Tokens(text))
  /\ pc = "extractName" =>
       Let(DetectName(text), LAMBDA found :
         /\ found.by \in {"labeled", "firstLine", "contact"}
              => ret = SplitRule(Tokens(found.match.g[1]))
         /\ found.by = "fallback"
              => ret = SplitRule(Tokens(found.match.all)) /\ ret = parseFullName(found.match.all))
\* the fallback strategy has found a name of three words
C7_FallbackThreeWords ==
  /\ pc = "extractName"
  /\ DetectName(text).by = "fallback"
  /\ Len(Tokens(DetectName(text).match.all)) = 3
  /\ ret.middleName # <<>>

(***************************************************************************)
(* extractLinkedIn, extractGithubUrl and extractPortfolioUrl applied to     *)
(* texts that mention 1..MaxMentions URLs: a URL is a scheme and a host    *)
(* with a path, a mention is a URL behind a label or behind none, and all  *)
(* mentions but the last are bare.                                         *)
(***************************************************************************)
MaxMentions == 2
UrlSchemes ==
  {<<>>,
   <<"h", "t", "t", "p", ":", "/", "/">>,
   <<"h", "t", "t", "p", "s", ":", "/", "/">>}
LinkedInHost == <<"l", "i", "n", "k", "e", "d", "i", "n", ".", "c", "o", "m", "/", "i", "n", "/", "j", "a", "n", "e", "q">>
GithubHost == <<"g", "i", "t", "h", "u", "b", ".", "c", "o", "m", "/", "j", "a", "n", "e", "q">>
PortfolioHost == <<"j", "a", "n", "e", "q", ".", "d", "e", "v", "/", "c", "v">>
UrlHosts == {LinkedInHost, GithubHost, PortfolioHost}
LinkedInLabel == <<"l", "i", "n", "k", "e", "d", "i", "n", ":", " ">>
GithubLabel == <<"g", "i", "t", ":", " ">>
PortfolioLabel == <<"w", "e", "b", "s", "i", "t", "e", ":", " ">>
UrlLabels == {<<>>, LinkedInLabel, GithubLabel, PortfolioLabel}
Urls(hosts) == {scheme \o host : scheme \in UrlSchemes, host \in hosts}
RECURSIVE MentionTexts(_)
MentionTexts(n) ==
  IF n = 1 THEN {label \o url : label \in UrlLabels, url \in Urls(UrlHosts)}
  ELSE {url \o <<" ">> \o rest : url \in Urls(UrlHosts), rest \in MentionTexts(n - 1)}
UrlTexts == UNION {MentionTexts(n) : n \in 1..MaxMentions}

UrlInit == text \in UrlTexts /\ year \in {2025} /\ Idle
ExtractLinkedIn ==
  /\ pc = "idle"
  /\ ret' = extractLinkedIn(text)
  /\ pc' = "extractLinkedIn"
  /\ UNCHANGED <<hooks, text, year, returned, data, locals>>
ExtractGithubUrl ==
  /\ pc = "idle"
  /\ ret' = extractGithubUrl(text)
  /\ pc' = "extractGithubUrl"
  /\ UNCHANGED <<hooks, text, year, returned, data, locals>>
ExtractPortfolioUrl ==
  /\ pc = "idle"
  /\ ret' = extractPortfolioUrl(text)
  /\ pc' = "extractPortfolioUrl"
  /\ UNCHANGED <<hooks, text, year, returned, data, locals>>
UrlNext == ExtractLinkedIn \/ ExtractGithubUrl \/ ExtractPortfolioUrl
UrlSpec == UrlInit /\ [][UrlNext]_vars

\* C8: whenever extractLinkedIn, extractGithubUrl or extractPortfolioUrl
\* returns a URL, the URL begins with "https://", whatever scheme the text
\* wrote it with.
C8_HttpsPrefix ==
  (pc \in {"extractLinkedIn", "extractGithubUrl", "extractPortfolioUrl"} /\ ret # Null)
    => StartsWith(ret, Https)

\* the URL a function returns for the URL url of the text
AsReturned(url) == IF StartsWith(url, <<"h", "t", "t", "p">>) THEN url ELSE Https \o url
\* the text mentions the URL url behind label, after at most one bare URL of
\* the same host
IsLabeledLast(label, host, url) ==
  \/ text = label \o url
  \/ \E earlier \in Urls({host}) : text = earlier \o <<" ">> \o label \o url
C10_NoProfileHost ==
  (pc = "extractPortfolioUrl" /\ ret # Null)
    => /\ ~Includes(ret, <<"i", "n", "k", "e", "d", "i", "n", ".", "c", "o", "m">>)
       /\ ~Includes(ret, <<"i", "t", "h", "u", "b", ".", "c", "o", "m">>)

(***************************************************************************)
(* extractInformation, one step per group of fields and, inside            *)
(* extractProjects and extractWorkExperience, one step per exec of a loop  *)
(* condition and one per loop body.  The documents are resumes without     *)
(* sections, with sections no strategy finds an entry in, and with         *)
(* sections that the first, second, third and fourth strategy of each      *)
(* function find entries in.                                               *)
(***************************************************************************)
Years == {2025, 2026}
Docs ==
  {<<>>,
   <<"J", "a", "n", "e", " ", "Q", ".", " ", "P", "u", "b", "l", "i", "c", "\n", "j", "a", "n", "e", "@", "x", ".", "i", "o", "\n", "S", "k", "i", "l", "l", "s", ":", "\n", "-", " ", "G", "o", ",", " ", "R", "u", "s", "t", "\n">>,
   <<"E", "d", "u", "c", "a", "t", "i", "o", "n", "\n", "B", ".", "T", "e", "c", "h", " ", "i", "n", " ", "P", "h", "y", "s", "i", "c", "s", "\n", "2", "0", "1", "6", " ", "t", "o", " ", "p", "r", "e", "s", "e", "n", "t", "\n", "P", "r", "o", "j", "e", "c", "t", "s", "\n", "P", "r", "o", "j", "e", "c", "t", ":", " ", "C", "h", "a", "t", " ", "A", "p", "p", "\n", "A", " ", "r", "e", "a", "l", "t", "i", "m", "e", " ", "c", "h", "a", "t", "\n", "E", "x", "p", "e", "r", "i", "e", "n", "c", "e", "\n", "C", "o", "m", "p", "a", "n", "y", ":", " ", "A", "c", "m", "e", " ", "C", "o", "r", "p", "\n", "P", "o", "s", "i", "t", "i", "o", "n", ":", " ", "E", "n", "g", "i", "n", "e", "e", "r", "\n", "2", "0", "1", "9", " ", "-", " ", "2", "0", "2", "1", "\n">>,
   <<"P", "r", "o", "j", "e", "c", "t", "s", "\n", "-", " ", "C", "h", "a", "t", " ", "A", "p", "p", ":", " ", "r", "e", "a", "l", "t", "i", "m", "e", " ", "c", "h", "a", "t", " ", "w", "i", "t", "h", " ", "N", "o", "d", "e", "\n", "-", " ", "W", "e", "a", "t", "h", "e", "r", "\n", "s", "h", "o", "w", "s", " ", "f", "o", "r", "e", "c", "a", "s", "t", "s", "\n", "E", "x", "p", "e", "r", "i", "e", "n", "c", "e", "\n", "A", "c", "m", "e", " ", "C", "o", "r", "p", ",", " ", "2", "0", "1", "9", "\n", "E", "n", "g", "i", "n", "e", "e", "r", ",", " ", "A", "u", "s", "t", "i", "n", "\n", "B", "e", "t", "a", " ", "I", "n", "c", " ", "(", "J", "a", "n", " ", "2", "0", "2", "0", ")", "\n", "M", "a", "n", "a", "g", "e", "r", " ", "i", "n", " ", "B", "o", "s", "t", "o", "n", ".", "\n">>,
   <<"P", "r", "o", "j", "e", "c", "t", "s", "\n", "C", "h", "a", "t", " ", "A", "p", "p", "\n", "r", "e", "a", "l", "t", "i", "m", "e", " ", "c", "h", "a", "t", "\n", "T", "o", "o", "l", "s", ":", " ", "N", "o", "d", "e", "\n", "E", "x", "p", "e", "r", "i", "e", "n", "c", "e", "\n", "E", "n", "g", "i", "n", "e", "e", "r", " ", "a", "t", " ", "A", "c", "m", "e", "\n", "b", "u", "i", "l", "t", " ", "t", "h", "i", "n", "g", "s", "\n">>,
   <<"P", "r", "o", "j", "e", "c", "t", "s", ":", "\n", "C", "h", "a", "t", " ", "A", "p", "p", " ", "(", "J", "a", "n", " ", "2", "0", "2", "0", " ", "-", " ", "M", "a", "r", " ", "2", "0", "2", "0", ")">>,
   <<"E", "x", "p", "e", "r", "i", "e", "n", "c", "e", ":", "\n", "P", "r", "o", "f", "e", "s", "s", "o", "r", " ", "a", "t", " ", "M", "I", "T">>,
   <<"P", "r", "o", "j", "e", "c", "t", "s", "\n", "n", "o", "t", "h", "i", "n", "g", " ", "t", "o", " ", "s", "h", "o", "w", " ", "h", "e", "r", "e", "\n", "E", "x", "p", "e", "r", "i", "e", "n", "c", "e", "\n", "n", "o", "n", "e", " ", "s", "o", " ", "f", "a", "r", " ", "r", "e", "a", "l", "l", "y", "\n">>}
\* the most entries the model keeps of an array a loop pushes to
MaxEntries == 3
\* Array.prototype.push, up to MaxEntries entries
Push(array, entry) == IF Len(array) < MaxEntries THEN Append(array, entry) ELSE array

Init == text \in Docs /\ year \in Years /\ Idle

\* lines 134-161: the name, the contact details and the education
PersonalInformation ==
  /\ pc = "idle"
  /\ \E info \in {[nameInfo |-> extractName(text),
                   educationInfo |-> extractEducation(text, year)]} :
       data' = [firstName |-> info.nameInfo.firstName,
                middleName |-> info.nameInfo.middleName,
                lastName |-> info.nameInfo.lastName,
                email |-> OrElse(extractEmail(text), <<>>),
                contactNumber |-> OrElse(extractPhone(text), <<>>),
                linkedinUrl |-> OrElse(extractLinkedIn(text), <<"h", "t", "t", "p", "s", ":", "/", "/", "l", "i", "n", "k", "e", "d", "i", "n", ".", "c", "o", "m", "/", "i", "n", "/">>),
                githubUrl |-> OrElse(extractGithubUrl(text), <<>>),
                portfolioUrl |-> OrElse(extractPortfolioUrl(text), <<>>),
                address |-> OrElse(extractAddress(text), <<>>),
                collegeName |-> info.educationInfo.collegeName,
                degree |-> info.educationInfo.degree,
                universityName |-> info.educationInfo.universityName,
                specialization |-> info.educationInfo.specialization,
                graduationYear |-> info.educationInfo.graduationYear,
                startYear |-> info.educationInfo.startYear,
                endYear |-> info.educationInfo.endYear,
                location |-> info.educationInfo.location,
                cgpa |-> info.educationInfo.cgpa,
                skills |-> <<>>, technicalSkills |-> <<>>, softSkills |-> <<>>,
                languages |-> <<>>, projects |-> <<>>, workExperiences |-> <<>>,
                certifications |-> <<>>, experience |-> 0, educationLevel |-> <<>>]
  /\ pc' = "skills"
  /\ UNCHANGED <<hooks, text, year, ret, returned, locals>>

\* lines 164-167
Skills ==
  /\ pc = "skills"
  /\ data' = [data EXCEPT !.skills = extractSkills(text),
                          !.technicalSkills = extractTechnicalSkills(text),
                          !.softSkills = extractSoftSkills(text),
                          !.languages = extractLanguages(text)]
  /\ pc' = "extractProjects"
  /\ UNCHANGED <<hooks, text, year, ret, returned, locals>>

\* the condition of a while loop, (match = re.exec(section)) !== null, of a
\* pattern with the g flag: exec searches from lastIndex on and leaves in
\* lastIndex the end of the match, or 0 when it returns null
LoopExec(at, re, body, exit) ==
  /\ pc = at
  /\ \E m \in {ExecFrom(re, section, lastIndex)} :
       /\ match' = m
       /\ lastIndex' = IF m.ok THEN m.end ELSE 0
       /\ pc' = IF m.ok THEN body ELSE exit
  /\ UNCHANGED <<hooks, text, year, ret, returned, data, section, projects, workExperiences>>
\* After that goes on to the next strategy whatever the array holds
AfterAlways(array, next, end) == next
\* where a function goes on after a strategy: to the next strategy when the
\* array is still empty, to its end otherwise
After(array, next, end) == IF array = <<>> THEN next ELSE end

\* extractProjects pushing to the array the call before left
ExtractProjectsSameArray ==
  /\ pc = "extractProjects"
  /\ section' = extractSection(text, projectHeaders)
  /\ lastIndex' = 0
  /\ pc' = IF section' # <<>> THEN "projectPattern1" ELSE "projectsReturn"
  /\ UNCHANGED <<hooks, text, year, ret, returned, data, projects, workExperiences, match>>
\* lines 903-917: the section, the empty array and the pattern of strategy 1
ExtractProjects ==
  /\ pc = "extractProjects"
  /\ section' = extractSection(text, projectHeaders)
  /\ projects' = <<>>
  /\ lastIndex' = 0
  /\ pc' = IF section' # <<>> THEN "projectPattern1" ELSE "projectsReturn"
  /\ UNCHANGED <<hooks, text, year, ret, returned, data, workExperiences, match>>
\* line 919
ProjectPattern1Exec ==
  LoopExec("projectPattern1", projectPattern1, "projectPattern1Body",
           After(projects, "projectPattern2", "projectsReturn"))
\* lines 920-936
ProjectPattern1Body ==
  /\ pc = "projectPattern1Body"
  /\ projects' = Push(projects, ProjectPattern1(match))
  /\ pc' = "projectPattern1"
  /\ UNCHANGED <<hooks, text, year, ret, returned, data, section, workExperiences, lastIndex, match>>
\* line 943
ProjectPattern2Exec ==
  LoopExec("projectPattern2", projectTitleRegex, "projectPattern2Body",
           After(projects, "projectPattern3", "projectsReturn"))
\* lines 944-999
ProjectPattern2Body ==
  /\ pc = "projectPattern2Body"
  /\ projects' = Push(projects, ProjectPattern2(section, match))
  /\ pc' = "projectPattern2"
  /\ UNCHANGED <<hooks, text, year, ret, returned, data, section, workExperiences, lastIndex, match>>
\* lines 1004-1056
ProjectPattern3Blocks ==
  /\ pc = "projectPattern3"
  /\ projects' = ProjectPattern3(section)
  /\ pc' = After(projects', "projectPattern4", "projectsReturn")
  /\ UNCHANGED <<hooks, text, year, ret, returned, data, section, workExperiences, lastIndex, match>>
\* line 1063
ProjectPattern4Exec ==
  LoopExec("projectPattern4", dateProjectRegex, "projectPattern4Body", "projectsReturn")
\* lines 1064-1105: the look-ahead exec from the end of the match leaves
\* lastIndex at 0 when it returns null, and the body puts lastIndex back to
\* the end of the match only when it returns a match
ProjectPattern4Body ==
  /\ pc = "projectPattern4Body"
  /\ \E nextMatch \in {ExecFrom(dateProjectRegex, section, match.end)} :
       /\ lastIndex' = IF nextMatch.ok THEN match.end ELSE 0
       /\ projects' = Push(projects, ProjectPattern4(section, match, nextMatch))
  /\ pc' = "projectPattern4"
  /\ UNCHANGED <<hooks, text, year, ret, returned, data, section, workExperiences, match>>
\* lines 1110-1124
ProjectsReturn ==
  /\ pc = "projectsReturn"
  /\ data' = [data EXCEPT !.projects = IF projects = <<>> THEN <<defaultProject>> ELSE projects]
  /\ pc' = "extractWorkExperience"
  /\ UNCHANGED <<hooks, text, year, ret, returned, locals>>

\* lines 1216-1230: the section, the empty array and the pattern of strategy 1
ExtractWorkExperience ==
  /\ pc = "extractWorkExperience"
  /\ section' = extractSection(text, experienceHeaders)
  /\ workExperiences' = <<>>
  /\ lastIndex' = 0
  /\ pc' = IF section' # <<>> THEN "workPattern1" ELSE "workReturn"
  /\ UNCHANGED <<hooks, text, year, ret, returned, data, projects, match>>
\* line 1232
WorkPattern1Exec ==
  LoopExec("workPattern1", companyLabeledRegex, "workPattern1Body",
           After(workExperiences, "workPattern2", "workReturn"))
\* lines 1233-1289
WorkPattern1Body ==
  /\ pc = "workPattern1Body"
  /\ workExperiences' = Push(workExperiences, WorkPattern1(section, match))
  /\ pc' = "workPattern1"
  /\ UNCHANGED <<hooks, text, year, ret, returned, data, section, projects, lastIndex, match>>
\* line 1297
WorkPattern2Exec ==
  LoopExec("workPattern2", companyDateRegex, "workPattern2Body",
           After(workExperiences, "workPattern3", "workReturn"))
\* lines 1298-1386
WorkPattern2Body ==
  /\ pc = "workPattern2Body"
  /\ workExperiences' = Push(workExperiences, WorkPattern2(section, match))
  /\ pc' = "workPattern2"
  /\ UNCHANGED <<hooks, text, year, ret, returned, data, section, projects, lastIndex, match>>
\* lines 1391-1476
WorkPattern3Blocks ==
  /\ pc = "workPattern3"
  /\ workExperiences' = WorkPattern3(section)
  /\ pc' = After(workExperiences', "workPattern4", "workReturn")
  /\ UNCHANGED <<hooks, text, year, ret, returned, data, section, projects, lastIndex, match>>
\* line 1483
WorkPattern4Exec ==
  LoopExec("workPattern4", academicPositionRegex, "workPattern4Body", "workReturn")
\* lines 1484-1524, with the look-ahead exec of lines 1490-1495
WorkPattern4Body ==
  /\ pc = "workPattern4Body"
  /\ \E nextMatch \in {ExecFrom(academicPositionRegex, section, match.end)} :
       /\ lastIndex' = IF nextMatch.ok THEN match.end ELSE 0
       /\ workExperiences' = Push(workExperiences, WorkPattern4(section, match, nextMatch))
  /\ pc' = "workPattern4"
  /\ UNCHANGED <<hooks, text, year, ret, returned, data, section, projects, match>>
\* extractWorkExperience returning the array as the strategies left it
WorkReturnAsFound ==
  /\ pc = "workReturn"
  /\ data' = [data EXCEPT !.workExperiences = workExperiences]
  /\ pc' = "finish"
  /\ UNCHANGED <<hooks, text, year, ret, returned, locals>>
\* lines 1529-1543
WorkReturn ==
  /\ pc = "workReturn"
  /\ data' = [data EXCEPT !.workExperiences =
                IF workExperiences = <<>> THEN <<defaultExperience>> ELSE workExperiences]
  /\ pc' = "finish"
  /\ UNCHANGED <<hooks, text, year, ret, returned, locals>>

\* lines 176-183: the last fields and the return of data; returned keeps
\* the record with the text and the year it was made from, after those of
\* the calls before
Finish ==
  /\ pc = "finish"
  /\ data' = [data EXCEPT !.certifications = extractCertifications(text),
                          !.experience = calculateExperience(text, year),
                          !.educationLevel = extractEducationLevel(text)]
  /\ returned' = Append(returned, [text |-> text, year |-> year, ret |-> data'])
  /\ pc' = "done"
  /\ UNCHANGED <<hooks, text, year, ret, locals>>

Next ==
  \/ PersonalInformation
  \/ Skills
  \/ ExtractProjects
  \/ ProjectPattern1Exec
  \/ ProjectPattern1Body
  \/ ProjectPattern2Exec
  \/ ProjectPattern2Body
  \/ ProjectPattern3Blocks
  \/ ProjectPattern4Exec
  \/ ProjectPattern4Body
  \/ ProjectsReturn
  \/ ExtractWorkExperience
  \/ WorkPattern1Exec
  \/ WorkPattern1Body
  \/ WorkPattern2Exec
  \/ WorkPattern2Body
  \/ WorkPattern3Blocks
  \/ WorkPattern4Exec
  \/ WorkPattern4Body
  \/ WorkReturn
  \/ Finish
Spec == Init /\ [][Next]_vars
\* the points of extractInformation
Points ==
  {"idle", "skills", "extractProjects", "projectPattern1", "projectPattern1Body",
   "projectPattern2", "projectPattern2Body", "projectPattern3", "projectPattern4",
   "projectPattern4Body", "projectsReturn", "extractWorkExperience", "workPattern1",
   "workPattern1Body", "workPattern2", "workPattern2Body", "workPattern3", "workPattern4",
   "workPattern4Body", "workReturn", "finish", "done"}
\* control moves on from a point that is not the return
MoveOn == pc # "done" /\ pc' \in Points \ {pc}
\* A call runs on without a pause until it returns.  Every step of Next
\* moves control on and one is possible at every point but the return, so
\* weak fairness of MoveOn is weak fairness of Next.
LiveSpec == Spec /\ WF_pc(MoveOn)

\* the caller calls extractInformation again, up to MaxCalls times in all, on
\* any document, in the same year; what the call before left behind is
\* still there
MaxCalls == 3
RepeatDocs ==
  {<<"E", "d", "u", "c", "a", "t", "i", "o", "n", "\n", "B", ".", "T", "e", "c", "h", " ", "i", "n", " ", "P", "h", "y", "s", "i", "c", "s", "\n", "2", "0", "1", "6", " ", "t", "o", " ", "p", "r", "e", "s", "e", "n", "t", "\n", "P", "r", "o", "j", "e", "c", "t", "s", "\n", "P", "r", "o", "j", "e", "c", "t", ":", " ", "C", "h", "a", "t", " ", "A", "p", "p", "\n", "A", " ", "r", "e", "a", "l", "t", "i", "m", "e", " ", "c", "h", "a", "t", "\n", "E", "x", "p", "e", "r", "i", "e", "n", "c", "e", "\n", "C", "o", "m", "p", "a", "n", "y", ":", " ", "A", "c", "m", "e", " ", "C", "o", "r", "p", "\n", "P", "o", "s", "i", "t", "i", "o", "n", ":", " ", "E", "n", "g", "i", "n", "e", "e", "r", "\n", "2", "0", "1", "9", " ", "-", " ", "2", "0", "2", "1", "\n">>,
   <<"P", "r", "o", "j", "e", "c", "t", "s", "\n", "-", " ", "C", "h", "a", "t", " ", "A", "p", "p", ":", " ", "r", "e", "a", "l", "t", "i", "m", "e", " ", "c", "h", "a", "t", " ", "w", "i", "t", "h", " ", "N", "o", "d", "e", "\n", "-", " ", "W", "e", "a", "t", "h", "e", "r", "\n", "s", "h", "o", "w", "s", " ", "f", "o", "r", "e", "c", "a", "s", "t", "s", "\n", "E", "x", "p", "e", "r", "i", "e", "n", "c", "e", "\n", "A", "c", "m", "e", " ", "C", "o", "r", "p", ",", " ", "2", "0", "1", "9", "\n", "E", "n", "g", "i", "n", "e", "e", "r", ",", " ", "A", "u", "s", "t", "i", "n", "\n", "B", "e", "t", "a", " ", "I", "n", "c", " ", "(", "J", "a", "n", " ", "2", "0", "2", "0", ")", "\n", "M", "a", "n", "a", "g", "e", "r", " ", "i", "n", " ", "B", "o", "s", "t", "o", "n", ".", "\n">>,
   <<"P", "r", "o", "j", "e", "c", "t", "s", ":", "\n", "C", "h", "a", "t", " ", "A", "p", "p", " ", "(", "J", "a", "n", " ", "2", "0", "2", "0", " ", "-", " ", "M", "a", "r", " ", "2", "0", "2", "0", ")">>,
   <<"E", "x", "p", "e", "r", "i", "e", "n", "c", "e", ":", "\n", "P", "r", "o", "f", "e", "s", "s", "o", "r", " ", "a", "t", " ", "M", "I", "T">>}
RepeatInit == text \in RepeatDocs /\ year \in Years /\ Idle
CallAgain ==
  /\ pc = "done"
  /\ Len(returned) < MaxCalls
  /\ text' \in RepeatDocs
  /\ pc' = "idle"
  /\ UNCHANGED <<hooks, year, ret, returned, data, locals>>
RepeatNext == Next \/ CallAgain
RepeatSpec == RepeatInit /\ [][RepeatNext]_vars

\* C1: for every input string, extractInformation terminates and returns a
\* profile record: the match loops of extractProjects and of
\* extractWorkExperience, the ones of strategy 4 that set lastIndex by hand
\* and run exec again to look ahead included, always reach their exit.
C1_Terminates == <>(pc = "done")

\* extractInformation has returned the record of the empty string
EmptyParsed == pc = "done" /\ text = <<>>
\* the fields of the record that the empty string leaves empty, and its two
\* lists of one placeholder each
EmptyDefaults ==
  /\ \A field \in {"firstName", "middleName", "lastName", "email", "contactNumber",
                   "githubUrl", "portfolioUrl", "address", "collegeName", "degree",
                   "universityName", "specialization", "graduationYear", "startYear",
                   "endYear", "location", "cgpa", "skills", "technicalSkills", "softSkills",
                   "languages", "certifications", "educationLevel"} : data[field] = <<>>
  /\ data.experience = 0
  /\ Len(data.projects) = 1
  /\ data.projects[1].name = <<"P", "r", "o", "j", "e", "c", "t">>
  /\ Len(data.workExperiences) = 1
  /\ data.workExperiences[1].company = <<>>
C3_Deterministic ==
  \A i, j \in 1..Len(returned) :
    (returned[i].text = returned[j].text /\ returned[i].year = returned[j].year)
      => returned[i].ret = returned[j].ret
\* a text has been parsed a second time after another text, whose projects
\* differ, was parsed in between
C3_ParsedAgain ==
  /\ Len(returned) = 3
  /\ returned[1].text = returned[3].text
  /\ returned[1].ret = returned[3].ret
  /\ returned[2].text # returned[1].text
  /\ returned[2].ret.projects # returned[1].ret.projects

\* extractProjects has returned
ProjectsReturned ==
  pc \in {"extractWorkExperience", "workPattern1", "workPattern1Body", "workPattern2",
          "workPattern2Body", "workPattern3", "workPattern4", "workPattern4Body",
          "workReturn", "finish", "done"}
\* the text has no projects section, or a section none of the four
\* strategies finds a project in
NoProjectFound ==
  Let(extractSection(text, projectHeaders), LAMBDA projectsSection :
    \/ projectsSection = <<>>
    \/ /\ ~Test(projectPattern1, projectsSection)
       /\ ~Test(projectTitleRegex, projectsSection)
       /\ ProjectPattern3(projectsSection) = <<>>
       /\ ~Test(dateProjectRegex, projectsSection))
WorkReturned == pc \in {"finish", "done"}
\* the text has no experience section, or a section none of the four
\* strategies finds an entry in
NoExperienceFound ==
  Let(extractSection(text, experienceHeaders), LAMBDA experienceSection :
    \/ experienceSection = <<>>
    \/ /\ ~Test(companyLabeledRegex, experienceSection)
       /\ ~Test(companyDateRegex, experienceSection)
       /\ WorkPattern3(experienceSection) = <<>>
       /\ ~Test(academicPositionRegex, experienceSection))
\* C5: extractWorkExperience never returns an empty list: when no strategy
\* finds an entry, also when there is no experience section, it returns
\* exactly one placeholder record whose company, position, startDate,
\* endDate, location, description, responsibilities and achievements are
\* all empty strings.
C5_NeverEmpty ==
  WorkReturned =>
    /\ data.workExperiences # <<>>
    /\ NoExperienceFound
         => /\ Len(data.workExperiences) = 1
            /\ \A field \in {"company", "position", "startDate", "endDate", "location",
                             "description", "responsibilities", "achievements"} :
                 data.workExperiences[1][field] = <<>>
\* extractWorkExperience has returned the placeholder for a text that has
\* an experience section
C5_SectionWithoutEntry ==
  /\ WorkReturned
  /\ NoExperienceFound
  /\ extractSection(text, experienceHeaders) # <<>>
  /\ Len(data.workExperiences) = 1

(***************************************************************************)
(* Section isolation: documents of one Education and one Work Experience   *)
(* section, each under its header on a line of its own, in both orders.    *)
(***************************************************************************)
educationHeaderLine == <<"E", "d", "u", "c", "a", "t", "i", "o", "n">>
workHeaderLine == <<"W", "o", "r", "k", " ", "E", "x", "p", "e", "r", "i", "e", "n", "c", "e">>
IsolationDocs ==
  {<<"E", "d", "u", "c", "a", "t", "i", "o", "n", "\n", "U", "n", "i", "v", "e", "r", "s", "i", "t", "y", ":", " ", "M", "I", "T", "\n", "D", "e", "g", "r", "e", "e", ":", " ", "B", ".", "T", "e", "c", "h", "\n", "W", "o", "r", "k", " ", "E", "x", "p", "e", "r", "i", "e", "n", "c", "e", "\n", "C", "o", "m", "p", "a", "n", "y", ":", " ", "A", "c", "m", "e", " ", "C", "o", "r", "p", "\n", "P", "o", "s", "i", "t", "i", "o", "n", ":", " ", "E", "n", "g", "i", "n", "e", "e", "r", "\n">>,
   <<"W", "o", "r", "k", " ", "E", "x", "p", "e", "r", "i", "e", "n", "c", "e", "\n", "C", "o", "m", "p", "a", "n", "y", ":", " ", "A", "c", "m", "e", " ", "C", "o", "r", "p", "\n", "P", "o", "s", "i", "t", "i", "o", "n", ":", " ", "E", "n", "g", "i", "n", "e", "e", "r", "\n", "E", "d", "u", "c", "a", "t", "i", "o", "n", "\n", "U", "n", "i", "v", "e", "r", "s", "i", "t", "y", ":", " ", "M", "I", "T", "\n", "D", "e", "g", "r", "e", "e", ":", " ", "B", ".", "T", "e", "c", "h", "\n">>,
   <<"W", "o", "r", "k", " ", "E", "x", "p", "e", "r", "i", "e", "n", "c", "e", "\n", "C", "o", "m", "p", "a", "n", "y", ":", " ", "A", "c", "m", "e", " ", "C", "o", "r", "p", "\n", "R", "a", "n", " ", "e", "d", "u", "c", "a", "t", "i", "o", "n", " ", "p", "r", "o", "g", "r", "a", "m", "s", "\n", "C", "o", "l", "l", "e", "g", "e", ":", " ", "N", "i", "g", "h", "t", " ", "O", "w", "l", "\n", "E", "d", "u", "c", "a", "t", "i", "o", "n", "\n", "U", "n", "i", "v", "e", "r", "s", "i", "t", "y", ":", " ", "M", "I", "T", "\n">>,
   <<"E", "d", "u", "c", "a", "t", "i", "o", "n", "\n", "U", "n", "i", "v", "e", "r", "s", "i", "t", "y", ":", " ", "M", "I", "T", "\n", "L", "a", "b", " ", "e", "x", "p", "e", "r", "i", "e", "n", "c", "e", " ", "g", "a", "i", "n", "e", "d", "\n", "C", "o", "m", "p", "a", "n", "y", ":", " ", "C", "a", "m", "p", "u", "s", " ", "C", "a", "f", "e", "\n", "W", "o", "r", "k", " ", "E", "x", "p", "e", "r", "i", "e", "n", "c", "e", "\n", "C", "o", "m", "p", "a", "n", "y", ":", " ", "A", "c", "m", "e", " ", "C", "o", "r", "p", "\n", "P", "o", "s", "i", "t", "i", "o", "n", ":", " ", "E", "n", "g", "i", "n", "e", "e", "r", "\n">>}
IsolationInit == text \in Docs \cup IsolationDocs /\ year \in {2025} /\ Idle
IsolationSpec == IsolationInit /\ [][Next]_vars

\* the JavaScript index of the line of s that is exactly header, or -1
HeaderLineIndex(s, header) ==
  IF StartsWith(s, header \o <<"\n">>) THEN 0
  ELSE IF Includes(s, <<"\n">> \o header \o <<"\n">>)
       THEN IndexOf(s, <<"\n">> \o header \o <<"\n">>, 0) + 1
       ELSE -1
\* the lines of s under the line header, up to the line other or the end
PartUnder(s, header, other) ==
  Let([from |-> HeaderLineIndex(s, header) + Len(header) + 1,
       next |-> HeaderLineIndex(s, other)], LAMBDA at :
    IF at.next > at.from THEN Substring(s, at.from, at.next)
    ELSE Substring(s, at.from, Len(s)))
educationPart == PartUnder(text, educationHeaderLine, workHeaderLine)
workPart == PartUnder(text, workHeaderLine, educationHeaderLine)
\* value is text of the part from and of no line of the part own
LeaksFrom(value, from, own) ==
  value # <<>> /\ Includes(from, value) /\ ~Includes(own, value)
\* C11: for a document with one Education section and one Work Experience
\* section, each introduced by a recognized header on its own line, no text
\* of the work-experience section appears in collegeName or universityName,
\* and no text of the education section appears in the company of any
\* returned work experience, in either order of the two sections.
C11_SectionIsolation ==
  (pc = "done" /\ text \in IsolationDocs) =>
    /\ ~LeaksFrom(data.collegeName, workPart, educationPart)
    /\ ~LeaksFrom(data.universityName, workPart, educationPart)
    /\ \A k \in 1..Len(data.workExperiences) :
         ~LeaksFrom(data.workExperiences[k].company, educationPart, workPart)
\* the two-section documents that are parsed with every field in its section
C11_Isolated ==
  /\ pc = "done" /\ text \in IsolationDocs
  /\ data.universityName # <<>>
  /\ LeaksFrom(data.universityName, educationPart, workPart)
  /\ \E k \in 1..Len(data.workExperiences) :
       LeaksFrom(data.workExperiences[k].company, workPart, educationPart)
  /\ C11_SectionIsolation

(***************************************************************************)
(* calculateExperience on texts put together from an explicit phrase, an   *)
(* Experience header, year ranges and a section that follows.              *)
(***************************************************************************)
\* the most year ranges in the experience section of a text
MaxRanges == 2
\* the years the explicit phrase states; 0 stands for a text without one
PhraseYears == {0, 5, 12}
\* a range of two years, or of a year and "Present" (open, end is 0)
YearRanges ==
  {[start |-> 2018, end |-> 2020, open |-> FALSE],
   [start |-> 2021, end |-> 0, open |-> TRUE],
   [start |-> 2020, end |-> 2018, open |-> FALSE],
   [start |-> 2030, end |-> 0, open |-> TRUE]}
RangeSeqs == UNION {[1..n -> YearRanges] : n \in 0..MaxRanges}
ExperienceCases ==
  [phrase : PhraseYears, header : BOOLEAN, ranges : RangeSeqs, trailer : BOOLEAN]
RangeLine(range) ==
  NumberToString(range.start) \o <<" ", "-", " ">>
    \o (IF range.open THEN <<"P", "r", "e", "s", "e", "n", "t">> ELSE NumberToString(range.end)) \o <<"\n">>
RECURSIVE RangeLines(_)
RangeLines(ranges) ==
  IF ranges = <<>> THEN <<>> ELSE RangeLine(Head(ranges)) \o RangeLines(Tail(ranges))
ExperienceText(case) ==
  (IF case.phrase = 0 THEN <<>>
   ELSE <<"E", "n", "g", "i", "n", "e", "e", "r", " ", "w", "i", "t", "h", " ">> \o NumberToString(case.phrase) \o <<" ", "y", "e", "a", "r", "s", " ", "o", "f", " ", "e", "x", "p", "e", "r", "i", "e", "n", "c", "e", "\n">>)
    \o (IF case.header THEN <<"E", "x", "p", "e", "r", "i", "e", "n", "c", "e", "\n">> ELSE <<>>)
    \o RangeLines(case.ranges)
    \o (IF case.trailer THEN <<"E", "d", "u", "c", "a", "t", "i", "o", "n", "\n", "2", "0", "1", "0", " ", "-", " ", "2", "0", "1", "4", "\n">> ELSE <<>>)
ExperienceTexts == {ExperienceText(case) : case \in ExperienceCases}

ExperienceInit == text \in ExperienceTexts /\ year \in Years /\ Idle
CalculateExperience ==
  /\ pc = "idle"
  /\ ret' = calculateExperience(text, year)
  /\ pc' = "calculateExperience"
  /\ UNCHANGED <<hooks, text, year, returned, data, locals>>
ExperienceNext == CalculateExperience
ExperienceSpec == ExperienceInit /\ [][ExperienceNext]_vars

\* the sum of end - start over the ranges, "Present" being the year Y
RECURSIVE SumOfRanges(_, _)
SumOfRanges(ranges, Y) ==
  IF ranges = <<>> THEN 0
  ELSE (IF Head(ranges).open THEN Y ELSE Head(ranges).end) - Head(ranges).start
       + SumOfRanges(Tail(ranges), Y)
\* C12: calculateExperience returns N when the text contains an explicit
\* "N years of experience" phrase, regardless of any date ranges; otherwise
\* it returns the sum of (end - start) over every year range "YYYY - YYYY"
\* or "YYYY - present" in the located experience section, with "present"
\* resolved to the current year Y, so a section containing "2018 - 2020"
\* and "2021 - Present" gives (2020-2018) + (Y-2021).
C12_ExperienceYears ==
  pc = "calculateExperience" =>
    \A case \in ExperienceCases :
      text = ExperienceText(case) =>
        ret = IF case.phrase # 0 THEN case.phrase
              ELSE IF case.header THEN SumOfRanges(case.ranges, year)
              ELSE 0
\* calculateExperience has summed "2018 - 2020" and "2021 - Present"
C12_ClosedAndOpenRange ==
  /\ pc = "calculateExperience"
  /\ text = <<"E", "x", "p", "e", "r", "i", "e", "n", "c", "e", "\n", "2", "0", "1", "8", " ", "-", " ", "2", "0", "2", "0", "\n", "2", "0", "2", "1", " ", "-", " ", "P", "r", "e", "s", "e", "n", "t", "\n">>
  /\ ret = (2020 - 2018) + (year - 2021)
\* C13: for every input text, calculateExperience returns an integer that
\* is greater than or equal to 0, including when a range in the experience
\* section has an end year earlier than its start year or a start year
\* later than the current year with an open "present" end.
C13_NonNegative == pc = "calculateExperience" => ret \in Nat

(***************************************************************************)
(* extractDateRange on texts of up to MaxDateLines lines, each a date      *)
(* range of a known shape or a line without one.                           *)
(***************************************************************************)
MaxDateLines == 2
NoRange == <<>>
\* a line, and for each of the three shapes in turn the start and the end
\* of the range of that shape the line holds, or NoRange
DateLines ==
  {[line |-> <<"2", "0", "1", "8", " ", "-", " ", "2", "0", "2", "0">>,
    ranges |-> <<<<<<"2", "0", "1", "8">>, <<"2", "0", "2", "0">>>>, NoRange, NoRange>>],
   [line |-> <<"2", "0", "1", "9", " ", "t", "o", " ", "P", "R", "E", "S", "E", "N", "T">>,
    ranges |-> <<<<<<"2", "0", "1", "9">>, <<"P", "r", "e", "s", "e", "n", "t">>>>, NoRange, NoRange>>],
   [line |-> <<"J", "a", "n", " ", "2", "0", "2", "0", " ", "-", " ", "M", "a", "r", " ", "2", "0", "2", "1">>,
    ranges |-> <<NoRange, <<<<"J", "a", "n", " ", "2", "0", "2", "0">>, <<"M", "a", "r", " ", "2", "0", "2", "1">>>>, NoRange>>],
   [line |-> <<"M", "a", "r", "c", "h", " ", "2", "0", "1", "7", " ", EnDash, " ", "c", "u", "r", "r", "e", "n", "t">>,
    ranges |-> <<<<<<"2", "0", "1", "7">>, <<"P", "r", "e", "s", "e", "n", "t">>>>, <<<<"M", "a", "r", "c", "h", " ", "2", "0", "1", "7">>, <<"P", "r", "e", "s", "e", "n", "t">>>>, NoRange>>],
   [line |-> <<"0", "1", "/", "2", "0", "2", "0", " ", "-", " ", "0", "5", "/", "2", "0", "2", "1">>,
    ranges |-> <<NoRange, NoRange, <<<<"0", "1", "/", "2", "0", "2", "0">>, <<"0", "5", "/", "2", "0", "2", "1">>>>>>],
   [line |-> <<"6", "/", "2", "0", "1", "6", " ", EmDash, " ", "N", "o", "w">>,
    ranges |-> <<<<<<"2", "0", "1", "6">>, <<"P", "r", "e", "s", "e", "n", "t">>>>, NoRange, <<<<"6", "/", "2", "0", "1", "6">>, <<"P", "r", "e", "s", "e", "n", "t">>>>>>],
   [line |-> <<"s", "i", "n", "c", "e", " ", "2", "0", "2", "0">>,
    ranges |-> <<NoRange, NoRange, NoRange>>]}
DateLineSeqs == UNION {[1..n -> DateLines] : n \in 0..MaxDateLines}
DateText(lines) == Join([k \in 1..Len(lines) |-> lines[k].line], <<"\n">>)
DateTexts == {DateText(lines) : lines \in DateLineSeqs}

DateInit == text \in DateTexts /\ year \in {2025} /\ Idle
ExtractDateRange ==
  /\ pc = "idle"
  /\ ret' = extractDateRange(text)
  /\ pc' = "extractDateRange"
  /\ UNCHANGED <<hooks, text, year, returned, data, locals>>
DateNext == ExtractDateRange
DateSpec == DateInit /\ [][DateNext]_vars

\* the range of the first shape, in the order of the shapes, that some line
\* holds, taken from the first line that holds a range of that shape
FirstShapeRange(lines) ==
  Let({shape \in 1..3 : \E k \in 1..Len(lines) : lines[k].ranges[shape] # NoRange},
      LAMBDA shapes :
    IF shapes = {} THEN [startDate |-> <<>>, endDate |-> <<>>]
    ELSE Let(CHOOSE shape \in shapes : \A other \in shapes : shape <= other, LAMBDA shape :
         Let(CHOOSE k \in 1..Len(lines) :
               /\ lines[k].ranges[shape] # NoRange
               /\ \A j \in 1..(k - 1) : lines[j].ranges[shape] = NoRange, LAMBDA k :
           [startDate |-> lines[k].ranges[shape][1], endDate |-> lines[k].ranges[shape][2]])))
\* C14: extractDateRange tries the year-range pattern, then the Month-YYYY
\* pattern, then the MM/YYYY pattern, and takes the first pattern in that
\* order that matches anywhere in the text (pattern order beats text
\* position); an end of "present", "current" or "now" in any letter case is
\* returned as exactly "Present"; when no pattern matches both startDate
\* and endDate are "".
C14_PatternOrder ==
  pc = "extractDateRange" =>
    \A lines \in DateLineSeqs : text = DateText(lines) => ret = FirstShapeRange(lines)
\* extractDateRange has returned the year range of the second line of a
\* text whose first line holds a range of months
C14_YearRangeAfterMonths ==
  /\ pc = "extractDateRange"
  /\ text = <<"J", "a", "n", " ", "2", "0", "2", "0", " ", "-", " ", "M", "a", "r", " ", "2", "0", "2", "1", "\n", "2", "0", "1", "9", " ", "t", "o", " ", "P", "R", "E", "S", "E", "N", "T">>
  /\ ret = [startDate |-> <<"2", "0", "1", "9">>, endDate |-> <<"P", "r", "e", "s", "e", "n", "t">>]

(***************************************************************************)
(* extractEducationLevel on texts of up to MaxLevelLines lines, each with  *)
(* the keyword tiers it names, under an Education header or without one.   *)
(***************************************************************************)
MaxLevelLines == 2
Levels == <<<<"I", "n", "t", "e", "r", "m", "e", "d", "i", "a", "t", "e">>, <<"G", "r", "a", "d", "u", "a", "t", "e">>, <<"P", "o", "s", "t", " ", "G", "r", "a", "d", "u", "a", "t", "e">>>>
\* a line and the tiers (1 intermediate, 2 bachelor's, 3 master's and
\* doctoral) of which it holds a keyword as a word of its own
LevelLines ==
  {[line |-> <<"H", "i", "g", "h", " ", "S", "c", "h", "o", "o", "l", " ", "d", "i", "p", "l", "o", "m", "a">>, tiers |-> {1}],
   [line |-> <<"P", "a", "s", "s", "e", "d", " ", "1", "2", "t", "h", " ", "g", "r", "a", "d", "e">>, tiers |-> {1}],
   [line |-> <<"B", ".", "T", "e", "c", "h", " ", "i", "n", " ", "P", "h", "y", "s", "i", "c", "s">>, tiers |-> {2}],
   [line |-> <<"B", "a", "c", "h", "e", "l", "o", "r", "'", "s", " ", "d", "e", "g", "r", "e", "e">>, tiers |-> {2}],
   [line |-> <<"M", "B", "A", ",", " ", "t", "h", "e", "n", " ", "P", "h", ".", "D">>, tiers |-> {3}],
   [line |-> <<"P", "o", "s", "t", "g", "r", "a", "d", "u", "a", "t", "e", " ", "s", "t", "u", "d", "i", "e", "s">>, tiers |-> {3}],
   [line |-> <<"P", "o", "s", "t", " ", "G", "r", "a", "d", "u", "a", "t", "e", " ", "d", "i", "p", "l", "o", "m", "a">>, tiers |-> {2, 3}],
   [line |-> <<"I", "n", "t", "e", "r", "m", "e", "d", "i", "a", "t", "e", ",", " ", "B", ".", "S", "c", " ", "a", "n", "d", " ", "M", ".", "S", "c">>, tiers |-> {1, 2, 3}],
   [line |-> <<"W", "o", "r", "k", "e", "d", " ", "f", "o", "r", " ", "A", "c", "m", "e", " ", "C", "o", "r", "p">>, tiers |-> {}]}
LevelLineSeqs == UNION {[1..n -> LevelLines] : n \in 0..MaxLevelLines}
LevelCases == [header : BOOLEAN, lines : LevelLineSeqs]
LevelText(case) ==
  (IF case.header THEN <<"E", "d", "u", "c", "a", "t", "i", "o", "n", "\n">> ELSE <<>>)
    \o Join([k \in 1..Len(case.lines) |-> case.lines[k].line], <<"\n">>)
LevelTexts == {LevelText(case) : case \in LevelCases}

LevelInit == text \in LevelTexts /\ year \in {2025} /\ Idle
ExtractEducationLevel ==
  /\ pc = "idle"
  /\ ret' = extractEducationLevel(text)
  /\ pc' = "extractEducationLevel"
  /\ UNCHANGED <<hooks, text, year, returned, data, locals>>
LevelNext == ExtractEducationLevel
LevelSpec == LevelInit /\ [][LevelNext]_vars

\* the tiers the lines name
TiersOf(lines) == UNION {lines[k].tiers : k \in 1..Len(lines)}
\* C15: extractEducationLevel always returns one of "Intermediate",
\* "Graduate", "Post Graduate" or ""; the three keyword tiers are tested in
\* that order against the whole text and the first tier that matches is
\* returned, so "Post Graduate" is returned only when neither the
\* intermediate tier nor the bachelor's tier matches anywhere in the text;
\* the education section is consulted only when no tier matches the whole
\* text.
C15_FirstTier ==
  pc = "extractEducationLevel" =>
    /\ ret \in {Levels[1], Levels[2], Levels[3], <<>>}
    /\ \A case \in LevelCases :
         text = LevelText(case) =>
           /\ TiersOf(case.lines) = {} => ret = <<>>
           /\ \A tier \in TiersOf(case.lines) :
                (\A other \in TiersOf(case.lines) : tier <= other) => ret = Levels[tier]
           /\ ret = Levels[3] => TiersOf(case.lines) = {3}
\* extractEducationLevel has returned "Graduate" for a text whose first
\* line names the master's tier and whose second names the bachelor's tier
C15_GraduateBeforePostGraduate ==
  /\ pc = "extractEducationLevel"
  /\ text = <<"E", "d", "u", "c", "a", "t", "i", "o", "n", "\n", "M", "B", "A", ",", " ", "t", "h", "e", "n", " ", "P", "h", ".", "D", "\n", "B", ".", "T", "e", "c", "h", " ", "i", "n", " ", "P", "h", "y", "s", "i", "c", "s">>
  /\ ret = <<"G", "r", "a", "d", "u", "a", "t", "e">>

(***************************************************************************)
(* The order of the strategies of extractName: texts put together from a   *)
(* standalone first line and, in every order, lines that a later strategy  *)
(* or the labeled strategy finds a name in.                                *)
(***************************************************************************)
\* a line (two for the contact section), the strategy that finds a name in
\* it (1 labeled, 3 contact section, 4 fallback) and the first name it holds
StrategyParts ==
  {[strategy |-> 1, lines |-> <<"n", "a", "m", "e", ":", " ", "A", "n", "n", " ", "L", "e", "e", "\n">>, firstName |-> <<"A", "n", "n">>],
   [strategy |-> 1, lines |-> <<"R", "e", "s", "u", "m", "e", " ", "o", "f", " ", "A", "m", "y", " ", "P", "o", "e", "\n">>, firstName |-> <<"A", "m", "y">>],
   [strategy |-> 3, lines |-> <<"C", "o", "n", "t", "a", "c", "t", "\n", "r", "e", "a", "c", "h", " ", "C", "i", "d", " ", "O", "r", "r", "\n">>, firstName |-> <<"C", "i", "d">>],
   [strategy |-> 4, lines |-> <<"m", "e", "t", " ", "D", "a", "n", " ", "F", "o", "x", " ", "t", "o", "d", "a", "y", "\n">>, firstName |-> <<"D", "a", "n">>]}
\* the capitalized line that stands alone at the start of a document
StandaloneLine == [strategy |-> 2, lines |-> <<"B", "o", "b", " ", "R", "a", "y", "\n">>, firstName |-> <<"B", "o", "b">>]
\* the parts in every order, each at most once
PartSeqs ==
  UNION {{parts \in [1..n -> StrategyParts] :
            \A j, k \in 1..n : parts[j] = parts[k] => j = k} :
         n \in 0..Cardinality(StrategyParts)}
StrategyCases == {start \o parts : start \in {<<>>, <<StandaloneLine>>}, parts \in PartSeqs}
RECURSIVE StrategyText(_)
StrategyText(parts) ==
  IF parts = <<>> THEN <<>> ELSE Head(parts).lines \o StrategyText(Tail(parts))
\* documents with a capitalized line of two to four words further down
LaterLineTexts ==
  {<<"j", "a", "n", "e", "@", "x", ".", "i", "o", "\n", "W", "o", "r", "k", " ", "E", "x", "p", "e", "r", "i", "e", "n", "c", "e", "\n", "b", "u", "i", "l", "t", " ", "t", "h", "i", "n", "g", "s", "\n">>,
   <<"j", "a", "n", "e", "@", "x", ".", "i", "o", "\n", "S", "e", "n", "i", "o", "r", " ", "S", "o", "f", "t", "w", "a", "r", "e", " ", "E", "n", "g", "i", "n", "e", "e", "r", "\n">>,
   <<"j", "a", "n", "e", " ", "q", ".", " ", "p", "u", "b", "l", "i", "c", "\n", "B", "o", "b", " ", "R", "a", "y", "\n">>}
StrategyTexts == {StrategyText(parts) : parts \in StrategyCases} \cup LaterLineTexts

StrategyInit == text \in StrategyTexts /\ year \in {2025} /\ Idle
StrategyNext == ExtractName
StrategySpec == StrategyInit /\ [][StrategyNext]_vars

\* the first part, in the order of the text, of the strategy that comes
\* first in the order of the strategies
FirstStrategyPart(parts) ==
  CHOOSE k \in 1..Len(parts) :
    /\ \A j \in 1..Len(parts) : parts[k].strategy <= parts[j].strategy
    /\ \A j \in 1..(k - 1) : parts[j].strategy # parts[k].strategy
\* C16: extractName applies its strategies in the fixed order labeled name,
\* standalone capitalized line, name-shaped line in the contact section,
\* generic capitalized-words fallback; the result comes from the first
\* strategy that matches and later strategies are not consulted, and when
\* none matches all three name parts are "".
C16_StrategyOrder ==
  pc = "extractName" =>
    \A parts \in StrategyCases :
      text = StrategyText(parts) =>
        IF parts = <<>> THEN ret = NoName
        ELSE ret.firstName = parts[FirstStrategyPart(parts)].firstName
\* extractName has returned the labeled name of the last line of a text
\* that opens with a standalone line, a contact section and a fallback name
C16_LabeledLast ==
  /\ pc = "extractName"
  /\ text = <<"B", "o", "b", " ", "R", "a", "y", "\n", "m", "e", "t", " ", "D", "a", "n", " ", "F", "o", "x", " ", "t", "o", "d", "a", "y", "\n", "C", "o", "n", "t", "a", "c", "t", "\n", "r", "e", "a", "c", "h", " ", "C", "i", "d", " ", "O", "r", "r", "\n", "n", "a", "m", "e", ":", " ", "A", "n", "n", " ", "L", "e", "e", "\n">>
  /\ ret.firstName = <<"A", "n", "n">>
\* C17: name strategy (b) accepts a capitalized 2-4-word line only when it
\* stands alone at the start of the document: a standalone capitalized line
\* further down (for example a section header such as "Work Experience" or
\* a job title) is never returned as the name by strategy (b).
C17_StartOfDocumentOnly ==
  (pc = "extractName" /\ DetectName(text).by = "firstLine") =>
    /\ DetectName(text).match.index = 0
    /\ ret = parseFullName(Substring(text, 0, Len(DetectName(text).match.all)))

(***************************************************************************)
(* extractSection with the synonyms of extractCertifications, on documents *)
(* put together from an opening, a header line, a body and a closing.      *)
(***************************************************************************)
certificationHeaders == <<<<"c", "e", "r", "t", "i", "f", "i", "c", "a", "t", "i", "o", "n", "s">>, <<"c", "e", "r", "t", "i", "f", "i", "c", "a", "t", "e", "s">>, <<"c", "r", "e", "d", "e", "n", "t", "i", "a", "l", "s">>>>
SectionOpenings ==
  {<<>>, <<"s", "e", "e", " ", "c", "e", "r", "t", "i", "f", "i", "c", "a", "t", "i", "o", "n", "s", " ", "b", "e", "l", "o", "w", "\n">>, <<"C", "e", "r", "t", "i", "f", "i", "c", "a", "t", "e", "s", "\n", "O", "l", "d", " ", "C", "e", "r", "t", " ", "1", "9", "9", "9", " ", "p", "a", "p", "e", "r", "\n">>}
SectionHeaderLines ==
  {<<>>, <<"C", "e", "r", "t", "i", "f", "i", "c", "a", "t", "i", "o", "n", "s", "\n">>, <<"C", "e", "r", "t", "i", "f", "i", "c", "a", "t", "i", "o", "n", "s", ":", " ", "l", "i", "s", "t", "\n">>, <<"[", "c", "e", "r", "t", "i", "f", "i", "c", "a", "t", "i", "o", "n", "s", "]", "\n">>,
   <<"C", "E", "R", "T", "I", "F", "I", "C", "A", "T", "I", "O", "N", "S", "\n", "=", "=", "=", "=", "=", "\n">>}
SectionBodies == {<<"C", "K", "A", "\n">>, <<"A", "W", "S", " ", "A", "r", "c", "h", "i", "t", "e", "c", "t", " ", "2", "0", "2", "0", "\n">>, <<"A", "W", "S", " ", "s", "k", "i", "l", "l", "s", " ", "b", "a", "d", "g", "e", " ", "2", "0", "2", "0", "\n">>}
SectionClosings ==
  {<<>>, <<"S", "k", "i", "l", "l", "s", "\n", "G", "o", "\n">>, <<"S", "k", "i", "l", "l", "s", ":", " ", "G", "o", "\n", "E", "d", "u", "c", "a", "t", "i", "o", "n", "\n", "M", "I", "T", "\n">>,
   <<"S", "k", "i", "l", "l", "s", "\n", "C", "r", "e", "d", "e", "n", "t", "i", "a", "l", "s", "\n", "A", "W", "S", " ", "S", "o", "l", "u", "t", "i", "o", "n", "s", " ", "2", "0", "2", "1", "\n">>}
SectionTexts ==
  {opening \o header \o body \o closing :
     opening \in SectionOpenings, header \in SectionHeaderLines,
     body \in SectionBodies, closing \in SectionClosings}

SectionInit == text \in SectionTexts /\ year \in {2025} /\ Idle
ExtractSection ==
  /\ pc = "idle"
  /\ ret' = extractSection(text, certificationHeaders)
  /\ pc' = "extractSection"
  /\ UNCHANGED <<hooks, text, year, returned, data, locals>>
SectionNext == ExtractSection
SectionSpec == SectionInit /\ [][SectionNext]_vars

LeastOf(numbers) == CHOOSE n \in numbers : \A other \in numbers : n <= other
\* the matches in s of the seven shapes of header, in their priority order
ShapeMatches(s, header) ==
  IF Includes(ToLowerCase(s), ToLowerCase(header))
  THEN Let(HeaderPatterns(header), LAMBDA patterns :
         [shape \in 1..Len(patterns) |-> Match(s, patterns[shape])])
  ELSE [shape \in 1..Len(HeaderPatterns(header)) |-> NoMatch]
\* the match of the first shape of header, in priority order, that s holds
FirstShapeMatch(s, header) ==
  Let(ShapeMatches(s, header), LAMBDA matches :
  Let({shape \in DOMAIN matches : matches[shape].ok}, LAMBDA shapes :
    IF shapes = {} THEN NoMatch ELSE matches[LeastOf(shapes)]))
\* the synonyms, by their place in the list, of which text holds some shape
MatchingSynonyms(headers) ==
  {k \in 1..Len(headers) : FirstShapeMatch(text, headers[k]).ok}
\* where the section of header starts: right after the first shape that matches
StartAfter(header) ==
  Let(FirstShapeMatch(text, header), LAMBDA found : found.index + Len(found.all))
\* the least index, over the common headers other than header, at which the
\* first shape of that header that matches the rest of the text occurs
EndAtFirstShape(header, start) ==
  Let(Substring(text, start, Len(text)), LAMBDA rest :
  Let({start + FirstShapeMatch(rest, commonHeaders[h]).index :
         h \in {g \in 1..Len(commonHeaders) :
                  /\ commonHeaders[g] # header
                  /\ FirstShapeMatch(rest, commonHeaders[g]).ok}}, LAMBDA ends :
    IF ends = {} THEN Len(text) ELSE LeastOf(ends)))
\* the least index at which any shape of any common header other than
\* header occurs in the rest of the text
EndAtAnyShape(header, start) ==
  Let(Substring(text, start, Len(text)), LAMBDA rest :
  Let(UNION {{start + ShapeMatches(rest, commonHeaders[h])[shape].index :
                shape \in {p \in 1..Len(HeaderPatterns(commonHeaders[h])) :
                             ShapeMatches(rest, commonHeaders[h])[p].ok}} :
             h \in {g \in 1..Len(commonHeaders) : commonHeaders[g] # header}},
      LAMBDA ends :
    IF ends = {} THEN Len(text) ELSE LeastOf(ends)))
\* the span of the section of header, as the locator cuts it
SpanOf(header) ==
  Trim(Substring(text, StartAfter(header), SectionEnd(text, header, StartAfter(header))))
\* ret is text from index start up to some index, trimmed
StartsAt(start) == \E end \in start..Len(text) : ret = Trim(Substring(text, start, end))

\* C18 as stated: extractSection walks the synonyms in the given order
\* and, for each synonym, the seven header patterns in priority order
\* (colon, underlined, all-caps, bracketed, markup, numbered, bare); the
\* section start is fixed by the first (synonym, pattern) pair that matches,
\* and the result is the empty string when no synonym matches any pattern.
C18_FirstPairFixesStart ==
  pc = "extractSection" =>
    IF MatchingSynonyms(certificationHeaders) = {} THEN ret = <<>>
    ELSE StartsAt(StartAfter(certificationHeaders[LeastOf(MatchingSynonyms(certificationHeaders))]))
\* C18, amended: the section start is fixed by the first (synonym, pattern)
\* pair that matches unless the span from that start is shorter than 10
\* characters and more than one synonym was given; the result is the empty
\* string when no synonym matches any pattern.
C18_FirstPairUnlessShort ==
  pc = "extractSection" =>
    IF MatchingSynonyms(certificationHeaders) = {} THEN ret = <<>>
    ELSE Let(certificationHeaders[LeastOf(MatchingSynonyms(certificationHeaders))],
             LAMBDA header :
           (Len(SpanOf(header)) >= 10 \/ Len(certificationHeaders) <= 1)
             => StartsAt(StartAfter(header)))
\* extractSection has started the section after the header with a colon of
\* a text that names the same synonym, bare, on an earlier line
C18_ColonAfterBare ==
  /\ pc = "extractSection"
  /\ text = <<"s", "e", "e", " ", "c", "e", "r", "t", "i", "f", "i", "c", "a", "t", "i", "o", "n", "s", " ", "b", "e", "l", "o", "w", "\n", "C", "e", "r", "t", "i", "f", "i", "c", "a", "t", "i", "o", "n", "s", ":", " ", "l", "i", "s", "t", "\n", "A", "W", "S", " ", "A", "r", "c", "h", "i", "t", "e", "c", "t", " ", "2", "0", "2", "0", "\n">>
  /\ ret = <<"A", "W", "S", " ", "A", "r", "c", "h", "i", "t", "e", "c", "t", " ", "2", "0", "2", "0">>

\* the spans of the synonyms of headers that text holds, each cut at end
SpansCutAt(headers, End(_, _)) ==
  {Trim(Substring(text, StartAfter(headers[k]), End(headers[k], StartAfter(headers[k])))) :
     k \in MatchingSynonyms(headers)}
\* C19 as stated: once extractSection has a start position, the section
\* ends at the nearest position after the start at which any other header
\* of the common-header vocabulary occurs in any of the header shapes (the
\* minimum over all headers and all shapes), and at the end of the document
\* when no such header occurs.
C19_NearestInAnyShape ==
  (pc = "extractSection" /\ MatchingSynonyms(certificationHeaders) # {}) =>
    ret \in SpansCutAt(certificationHeaders, EndAtAnyShape)
\* what the code does in place of C19: the section ends at the least, over
\* the other headers of the common-header vocabulary, of the index at which
\* the first shape of that header, in the priority order of the shapes,
\* that occurs after the start occurs first
C19_NearestFirstShape ==
  (pc = "extractSection" /\ MatchingSynonyms(certificationHeaders) # {}) =>
    ret \in SpansCutAt(certificationHeaders, EndAtFirstShape)
\* extractSection has cut the section at a header with a colon although
\* the same header word stands, bare, in a line before it
C19_CutAtColonHeader ==
  /\ pc = "extractSection"
  /\ text = <<"C", "e", "r", "t", "i", "f", "i", "c", "a", "t", "i", "o", "n", "s", "\n", "A", "W", "S", " ", "s", "k", "i", "l", "l", "s", " ", "b", "a", "d", "g", "e", " ", "2", "0", "2", "0", "\n", "S", "k", "i", "l", "l", "s", ":", " ", "G", "o", "\n", "E", "d", "u", "c", "a", "t", "i", "o", "n", "\n", "M", "I", "T", "\n">>
  /\ ret = <<"A", "W", "S", " ", "s", "k", "i", "l", "l", "s", " ", "b", "a", "d", "g", "e", " ", "2", "0", "2", "0">>

\* the synonym that matches first is not the last of the list, and its
\* span is shorter than 10 characters
ShortSpanFirst(headers) ==
  /\ MatchingSynonyms(headers) # {}
  /\ LeastOf(MatchingSynonyms(headers)) < Len(headers)
  /\ Len(SpanOf(headers[LeastOf(MatchingSynonyms(headers))])) < 10
\* C20: in extractSection, a span shorter than 10 characters found for one
\* synonym while other synonyms remain untried is not accepted: the locator
\* moves on to the next synonym, and the value finally returned is the span
\* of a later synonym, or the empty string when no later synonym matches;
\* the guard is not applied when no synonym remains to be tried.
C20_ShortSpanNotAccepted ==
  (pc = "extractSection" /\ ShortSpanFirst(certificationHeaders)) =>
    Let(MatchingSynonyms(certificationHeaders), LAMBDA matching :
      IF matching = {LeastOf(matching)} THEN ret = <<>>
      ELSE \E k \in matching \ {LeastOf(matching)} : ret = SpanOf(certificationHeaders[k]))
\* extractSection has returned the span of a later synonym in place of the
\* short span of the first
C20_LaterSynonym ==
  /\ pc = "extractSection"
  /\ text = <<"C", "e", "r", "t", "i", "f", "i", "c", "a", "t", "i", "o", "n", "s", "\n", "C", "K", "A", "\n", "S", "k", "i", "l", "l", "s", "\n", "C", "r", "e", "d", "e", "n", "t", "i", "a", "l", "s", "\n", "A", "W", "S", " ", "S", "o", "l", "u", "t", "i", "o", "n", "s", " ", "2", "0", "2", "1", "\n">>
  /\ ret = <<"A", "W", "S", " ", "S", "o", "l", "u", "t", "i", "o", "n", "s", " ", "2", "0", "2", "1">>

(***************************************************************************)
(* extractEducation on education sections put together from a labeled     *)
(* college, a labeled university, a labeled graduation year, a year range  *)
(* and a closing line that names an institution.                           *)
(***************************************************************************)
CollegeLines == {<<>>, <<"C", "o", "l", "l", "e", "g", "e", ":", " ", "H", "i", "l", "l", " ", "C", "o", "l", "l", "e", "g", "e", "\n">>}
UniversityLines == {<<>>, <<"U", "n", "i", "v", "e", "r", "s", "i", "t", "y", ":", " ", "M", "I", "T", "\n">>}
GraduationLines == {<<>>, <<"G", "r", "a", "d", "u", "a", "t", "e", "d", ":", " ", "2", "0", "2", "1", "\n">>}
\* a line with a year range, its start and its end (0 for an open end)
EducationRanges ==
  {[line |-> <<>>, start |-> 0, end |-> 0],
   [line |-> <<"2", "0", "1", "8", " ", "-", " ", "2", "0", "2", "2", "\n">>, start |-> 2018, end |-> 2022],
   [line |-> <<"2", "0", "2", "1", " ", "-", " ", "2", "0", "2", "5", "\n">>, start |-> 2021, end |-> 2025],
   [line |-> <<"2", "0", "2", "2", " ", "-", " ", "P", "r", "e", "s", "e", "n", "t", "\n">>, start |-> 2022, end |-> 0],
   [line |-> <<"2", "0", "1", "9", " ", "t", "o", " ", "n", "o", "w", "\n">>, start |-> 2019, end |-> 0]}
InstitutionLines == {<<>>, <<"B", "o", "s", "t", "o", "n", " ", "C", "o", "l", "l", "e", "g", "e">>}
EducationCases ==
  [college : CollegeLines, university : UniversityLines, graduation : GraduationLines,
   range : EducationRanges, institution : InstitutionLines]
EducationText(case) ==
  <<"E", "d", "u", "c", "a", "t", "i", "o", "n", "\n">> \o case.college \o case.university \o case.graduation
    \o case.range.line \o case.institution
EducationTexts == {EducationText(case) : case \in EducationCases}

EducationInit == text \in EducationTexts /\ year \in Years /\ Idle
ExtractEducation ==
  /\ pc = "idle"
  /\ ret' = extractEducation(text, year)
  /\ pc' = "extractEducation"
  /\ UNCHANGED <<hooks, text, year, returned, data, locals>>
EducationNext == ExtractEducation
EducationSpec == EducationInit /\ [][EducationNext]_vars

\* C21 as stated: in every record returned by extractEducation, a
\* non-empty collegeName implies a non-empty universityName, and when no
\* labeled university was found universityName equals collegeName.
C21_MirrorsCollege ==
  pc = "extractEducation" =>
    /\ ret.collegeName # <<>> => ret.universityName # <<>>
    /\ \A case \in EducationCases :
         (text = EducationText(case) /\ case.university = <<>>)
           => ret.universityName = ret.collegeName
\* C21, amended: a non-empty collegeName implies a non-empty
\* universityName, and when a college name but no labeled university was
\* found universityName equals collegeName.
C21_MirrorsCollegeFound ==
  pc = "extractEducation" =>
    /\ ret.collegeName # <<>> => ret.universityName # <<>>
    /\ \A case \in EducationCases :
         (text = EducationText(case) /\ case.university = <<>> /\ case.college # <<>>)
           => /\ ret.collegeName = <<"H", "i", "l", "l", " ", "C", "o", "l", "l", "e", "g", "e">>
              /\ ret.universityName = ret.collegeName
\* extractEducation has returned the labeled college as the university of
\* a section without a labeled university
C21_CollegeOnly ==
  /\ pc = "extractEducation"
  /\ text = <<"E", "d", "u", "c", "a", "t", "i", "o", "n", "\n", "C", "o", "l", "l", "e", "g", "e", ":", " ", "H", "i", "l", "l", " ", "C", "o", "l", "l", "e", "g", "e", "\n", "2", "0", "1", "8", " ", "-", " ", "2", "0", "2", "2", "\n">>
  /\ ret.collegeName = <<"H", "i", "l", "l", " ", "C", "o", "l", "l", "e", "g", "e">>
  /\ ret.universityName = <<"H", "i", "l", "l", " ", "C", "o", "l", "l", "e", "g", "e">>
\* C22: when the education section contains a year range and no labeled
\* graduation year, extractEducation sets startYear and endYear from the
\* range and graduationYear equal to endYear, where an end of "present",
\* "current" or "now" counts as the current calendar year (so for
\* "2022 - Present" graduationYear is the current year, never the start
\* year).
C22_GraduationFromRange ==
  pc = "extractEducation" =>
    \A case \in EducationCases :
      (text = EducationText(case) /\ case.range.line # <<>> /\ case.graduation = <<>>)
        => /\ ret.startYear = NumberToString(case.range.start)
           /\ ret.endYear = NumberToString(IF case.range.end = 0 THEN year ELSE case.range.end)
           /\ ret.graduationYear = ret.endYear
\* extractEducation has taken the end of a closed range that ends before
\* the current year for the graduation year
C22_ClosedRange ==
  /\ pc = "extractEducation"
  /\ text = <<"E", "d", "u", "c", "a", "t", "i", "o", "n", "\n", "2", "0", "1", "8", " ", "-", " ", "2", "0", "2", "2", "\n">>
  /\ ret.startYear = <<"2", "0", "1", "8">> /\ ret.endYear = <<"2", "0", "2", "2">> /\ ret.graduationYear = <<"2", "0", "2", "2">>

(***************************************************************************)
(* The skill extractors within extractInformation: documents with skill    *)
(* sections that repeat entries, and documents without a technical-skills  *)
(* section that name technologies.                                         *)
(***************************************************************************)
SkillDocs ==
  {<<"S", "k", "i", "l", "l", "s", "\n", "-", " ", "G", "o", "\n", "-", " ", "R", "u", "s", "t", "\n", "-", " ", "G", "o", "\n", "S", "o", "f", "t", " ", "S", "k", "i", "l", "l", "s", "\n", "-", " ", "T", "e", "a", "m", "w", "o", "r", "k", "\n", "-", " ", "T", "e", "a", "m", "w", "o", "r", "k", "\n", "L", "a", "n", "g", "u", "a", "g", "e", "s", "\n", "E", "n", "g", "l", "i", "s", "h", "\n", "H", "i", "n", "d", "i", "\n", "E", "n", "g", "l", "i", "s", "h", "\n">>,
   <<"T", "e", "c", "h", "n", "i", "c", "a", "l", " ", "S", "k", "i", "l", "l", "s", "\n", "-", " ", "D", "o", "c", "k", "e", "r", "\n", "-", " ", "D", "o", "c", "k", "e", "r", "\n", "G", "i", "t", ";", " ", "G", "i", "t", "\n">>,
   <<"T", "e", "c", "h", "n", "i", "c", "a", "l", " ", "S", "k", "i", "l", "l", "s", "\n", "B", "a", "c", "k", "e", "n", "d", ":", "\n", "G", "o", ",", " ", "R", "u", "s", "t", "\n", "F", "r", "o", "n", "t", "e", "n", "d", ":", "\n", "R", "e", "a", "c", "t", "\n">>,
   <<"T", "e", "c", "h", "n", "i", "c", "a", "l", " ", "S", "k", "i", "l", "l", "s", "\n", "B", "a", "c", "k", "e", "n", "d", ":", "\n", "G", "o", ",", " ", "R", "u", "s", "t", "\n", "B", "a", "c", "k", "e", "n", "d", ":", "\n", "G", "o", ",", " ", "R", "u", "s", "t", "\n">>}
\* a document without a technical-skills section, and the words of the
\* technology vocabulary it holds, in lower case
VocabularyDocs ==
  {[text |-> <<"J", "a", "n", "e", " ", "R", "o", "e", "\n", "B", "u", "i", "l", "t", " ", "s", "e", "r", "v", "i", "c", "e", "s", " ", "i", "n", " ", "P", "y", "t", "h", "o", "n", " ", "a", "n", "d", " ", "G", "o", " ", "o", "n", " ", "A", "W", "S", "\n", "P", "y", "t", "h", "o", "n", " ", "a", "g", "a", "i", "n", "\n">>,
    found |-> {<<"p", "y", "t", "h", "o", "n">>, <<"g", "o">>, <<"a", "w", "s">>}],
   [text |-> <<"J", "a", "n", "e", " ", "R", "o", "e", "\n", "W", "r", "i", "t", "e", "s", " ", "p", "o", "e", "m", "s", "\n">>, found |-> {}]}
SkillsInit ==
  /\ text \in Docs \cup SkillDocs \cup {doc.text : doc \in VocabularyDocs}
  /\ year \in {2025}
  /\ Idle
SkillsSpec == SkillsInit /\ [][Next]_vars

NoDuplicates(array) == \A j, k \in 1..Len(array) : array[j] = array[k] => j = k
\* the entries of a string joined with ', ', none of which holds a comma
CommaJoined(s) == IF s = <<>> THEN <<>> ELSE Split(s, RegExp(Lit(<<",", " ">>), {}, 0))
\* the entries of a string joined with '\n'
LineJoined(s) == IF s = <<>> THEN <<>> ELSE SplitLines(s)
\* C23: the list of entries that extractSkills, extractTechnicalSkills,
\* extractSoftSkills and extractLanguages each join into their output
\* string never contains the same entry twice (case-sensitive comparison),
\* including "Category: a, b" entries of the technical-skills extractor
\* when the same category line pair occurs more than once in the section.
\* (The entries of the three strings joined with ', ' are read off the
\* documents without a comma.)
C23_NoDuplicateEntries ==
  (pc = "done" /\ text \in SkillDocs) =>
    /\ NoDuplicates(LineJoined(data.technicalSkills))
    /\ ~Includes(text, <<",">>)
         => /\ NoDuplicates(CommaJoined(data.skills))
            /\ NoDuplicates(CommaJoined(data.softSkills))
            /\ NoDuplicates(CommaJoined(data.languages))
\* the extractors have returned the repeated entries of the sections of a
\* document once each
C23_RepeatedBullets ==
  /\ pc = "done"
  /\ text = <<"S", "k", "i", "l", "l", "s", "\n", "-", " ", "G", "o", "\n", "-", " ", "R", "u", "s", "t", "\n", "-", " ", "G", "o", "\n", "S", "o", "f", "t", " ", "S", "k", "i", "l", "l", "s", "\n", "-", " ", "T", "e", "a", "m", "w", "o", "r", "k", "\n", "-", " ", "T", "e", "a", "m", "w", "o", "r", "k", "\n", "L", "a", "n", "g", "u", "a", "g", "e", "s", "\n", "E", "n", "g", "l", "i", "s", "h", "\n", "H", "i", "n", "d", "i", "\n", "E", "n", "g", "l", "i", "s", "h", "\n">>
  /\ data.skills = <<"G", "o", ",", " ", "R", "u", "s", "t", ",", " ", "-", " ", "G", "o", ",", " ", "-", " ", "R", "u", "s", "t">>
  /\ data.languages = <<"E", "n", "g", "l", "i", "s", "h", ",", " ", "H", "i", "n", "d", "i">>
\* C24: when no technical-skills section can be located in the text,
\* extractTechnicalSkills falls back to scanning the whole document for the
\* fixed technology vocabulary (case-insensitively) and returns the
\* keywords found, each once; the empty string is returned only when none
\* of the vocabulary occurs.
C24_VocabularyFallback ==
  pc = "done" =>
    \A doc \in VocabularyDocs :
      text = doc.text =>
        Let(LineJoined(data.technicalSkills), LAMBDA keywords :
          /\ {keywords[k] : k \in 1..Len(keywords)} = doc.found
          /\ NoDuplicates(keywords))

\* the strategy of extractProjects that control is in, 0 outside the four
ProjectStrategyAt(at) ==
  IF at \in {"projectPattern1", "projectPattern1Body"} THEN 1
  ELSE IF at \in {"projectPattern2", "projectPattern2Body"} THEN 2
  ELSE IF at = "projectPattern3" THEN 3
  ELSE IF at \in {"projectPattern4", "projectPattern4Body"} THEN 4
  ELSE 0
\* C25: extractProjects runs its four strategies in strict priority order
\* and strategy k runs only when strategies 1..k-1 together produced zero
\* records, so every record of a returned list was produced by one and the
\* same strategy (or is the single placeholder).
C25_StrictPriority ==
  [][/\ ProjectStrategyAt(pc') # ProjectStrategyAt(pc) /\ ProjectStrategyAt(pc') # 0
          => /\ ProjectStrategyAt(pc') = ProjectStrategyAt(pc) + 1
             /\ projects' = <<>>
     /\ Len(projects') > Len(projects) /\ projects # <<>>
          => ProjectStrategyAt(pc') = ProjectStrategyAt(pc)
     /\ pc = "projectsReturn"
          => data'.projects \in {projects, <<defaultProject>>}]_vars
\* the second strategy is about to push a second record: the first
\* strategy has found nothing
C25_SecondStrategyAtWork ==
  /\ pc = "projectPattern2Body"
  /\ projects # <<>>

(***************************************************************************)
(* The fourth strategies of extractProjects and extractWorkExperience      *)
(* within extractInformation: sections that hold nothing but dated project *)
(* headers, or nothing but academic-title phrases, with the records the    *)
(* headers and the phrases of the section stand for.  Of a header line     *)
(* that ends in a colon extractSection takes the line after it into the    *)
(* header, so that the section of the documents of two lines is their last *)
(* line.                                                                   *)
(***************************************************************************)
DatedProjectDocs ==
  {[text |-> <<"P", "r", "o", "j", "e", "c", "t", "s", ":", "\n", "C", "h", "a", "t", " ", "A", "p", "p", " ", "(", "J", "a", "n", " ", "2", "0", "2", "0", " ", "-", " ", "M", "a", "r", " ", "2", "0", "2", "0", ")">>,
    section |-> <<"C", "h", "a", "t", " ", "A", "p", "p", " ", "(", "J", "a", "n", " ", "2", "0", "2", "0", " ", "-", " ", "M", "a", "r", " ", "2", "0", "2", "0", ")">>,
    headers |-> <<[name |-> <<"C", "h", "a", "t", " ", "A", "p", "p">>, startDate |-> <<"J", "a", "n", " ", "2", "0", "2", "0">>,
                   endDate |-> <<"M", "a", "r", " ", "2", "0", "2", "0">>, description |-> <<>>]>>],
   [text |-> <<"P", "r", "o", "j", "e", "c", "t", "s", ":", "\n", "C", "h", "a", "t", " ", "A", "p", "p", " ", "(", "J", "a", "n", " ", "2", "0", "2", "0", " ", "-", " ", "M", "a", "r", " ", "2", "0", "2", "0", ")", "\n", "S", "h", "o", "p", " ", "(", "M", "a", "y", " ", "2", "0", "2", "1", " ", "-", " ", "J", "u", "n", " ", "2", "0", "2", "2", ")">>,
    section |-> <<"S", "h", "o", "p", " ", "(", "M", "a", "y", " ", "2", "0", "2", "1", " ", "-", " ", "J", "u", "n", " ", "2", "0", "2", "2", ")">>,
    headers |-> <<[name |-> <<"S", "h", "o", "p">>, startDate |-> <<"M", "a", "y", " ", "2", "0", "2", "1">>,
                   endDate |-> <<"J", "u", "n", " ", "2", "0", "2", "2">>, description |-> <<>>]>>]}
AcademicDocs ==
  {[text |-> <<"E", "x", "p", "e", "r", "i", "e", "n", "c", "e", ":", "\n", "P", "r", "o", "f", "e", "s", "s", "o", "r", " ", "a", "t", " ", "M", "I", "T">>,
    section |-> <<"P", "r", "o", "f", "e", "s", "s", "o", "r", " ", "a", "t", " ", "M", "I", "T">>,
    phrases |-> <<[position |-> <<"P", "r", "o", "f", "e", "s", "s", "o", "r">>, company |-> <<"M", "I", "T">>,
                   description |-> <<>>]>>],
   [text |-> <<"E", "x", "p", "e", "r", "i", "e", "n", "c", "e", ":", "\n", "P", "r", "o", "f", "e", "s", "s", "o", "r", " ", "a", "t", " ", "M", "I", "T", "\n", "L", "e", "c", "t", "u", "r", "e", "r", " ", "a", "t", " ", "Y", "a", "l", "e">>,
    section |-> <<"L", "e", "c", "t", "u", "r", "e", "r", " ", "a", "t", " ", "Y", "a", "l", "e">>,
    phrases |-> <<[position |-> <<"L", "e", "c", "t", "u", "r", "e", "r">>, company |-> <<"Y", "a", "l", "e">>,
                   description |-> <<>>]>>]}
LastStrategyInit ==
  /\ text \in Docs \cup {doc.text : doc \in DatedProjectDocs}
                   \cup {doc.text : doc \in AcademicDocs}
  /\ year \in {2025}
  /\ Idle
LastStrategySpec == LastStrategyInit /\ [][Next]_vars

\* the records, in order, are the first records the headers stand for
RecordsOfHeaders(records, headers) ==
  /\ Len(records) <= Len(headers)
  /\ \A k \in 1..Len(records) :
       /\ records[k].name = headers[k].name
       /\ records[k].startDate = headers[k].startDate
       /\ records[k].endDate = headers[k].endDate
       /\ records[k].description = headers[k].description
\* C26: when strategies 1-3 find nothing and the projects section contains
\* n >= 1 headers of the form "Title (Month YYYY - Month YYYY|Present)",
\* extractProjects returns exactly n records in document order, one per
\* header, each with name = the title, startDate/endDate parsed from the
\* parenthetical range, and description taken from the text between that
\* header and the next one.  (While the fourth strategy is at work the array
\* holds the records of the first headers, and what extractProjects returns
\* holds one for each.)
C26_OneRecordPerHeader ==
  \A doc \in DatedProjectDocs :
    text = doc.text =>
      /\ ProjectStrategyAt(pc) = 4
           => section = doc.section /\ RecordsOfHeaders(projects, doc.headers)
      /\ pc \in {"extractWorkExperience", "finish", "done"}
           => /\ RecordsOfHeaders(data.projects, doc.headers)
              /\ Len(data.projects) = Len(doc.headers)
\* the fourth strategy has pushed the record of a dated header
C26_DatedHeaderRecord ==
  /\ \E doc \in DatedProjectDocs : text = doc.text
  /\ pc = "projectPattern4"
  /\ Len(projects) = 1

\* the records, in order, are the first records the phrases stand for
RecordsOfPhrases(records, phrases) ==
  /\ Len(records) <= Len(phrases)
  /\ \A k \in 1..Len(records) :
       /\ records[k].position = phrases[k].position
       /\ records[k].company = phrases[k].company
       /\ records[k].description = phrases[k].description
\* C27: when strategies 1-3 of extractWorkExperience find nothing and the
\* experience section contains n >= 1 academic-title phrases such as
\* "Professor at X" or "Research Assistant at Y", the result is exactly n
\* records in document order, one per phrase, with position = the title,
\* company = the institution after at/of/in, and description taken from the
\* text up to the next such phrase.
C27_OneRecordPerPhrase ==
  \A doc \in AcademicDocs :
    text = doc.text =>
      /\ pc \in {"workPattern4", "workPattern4Body"}
           => section = doc.section /\ RecordsOfPhrases(workExperiences, doc.phrases)
      /\ pc \in {"finish", "done"}
           => /\ RecordsOfPhrases(data.workExperiences, doc.phrases)
              /\ Len(data.workExperiences) = Len(doc.phrases)
\* the fourth strategy has pushed the record of an academic phrase
C27_AcademicPhraseRecord ==
  /\ \E doc \in AcademicDocs : text = doc.text
  /\ pc = "workPattern4"
  /\ Len(workExperiences) = 1

(***************************************************************************)
(* extractSection on documents of whole lines: an opening, a header line   *)
(* of the certifications, the lines of the section, and a closing that is  *)
(* empty, begins with the line of another header, or is a line of content  *)
(* with a header word in its middle.                                       *)
(***************************************************************************)
BoundaryOpenings == {<<>>, <<"J", "a", "n", "e", " ", "R", "o", "e", "\n">>, <<"J", "a", "n", "e", " ", "R", "o", "e", "\n", "j", "a", "n", "e", "@", "x", ".", "i", "o", "\n">>}
BoundaryHeaderLines ==
  {<<"C", "e", "r", "t", "i", "f", "i", "c", "a", "t", "i", "o", "n", "s", "\n">>, <<"C", "E", "R", "T", "I", "F", "I", "C", "A", "T", "I", "O", "N", "S", "\n">>, <<"C", "e", "r", "t", "i", "f", "i", "c", "a", "t", "i", "o", "n", "s", ":", " ", "l", "i", "s", "t", "\n">>,
   <<"1", ".", " ", "C", "e", "r", "t", "i", "f", "i", "c", "a", "t", "i", "o", "n", "s", "\n">>}
BoundaryBodies ==
  {<<"A", "W", "S", " ", "A", "r", "c", "h", "i", "t", "e", "c", "t", " ", "2", "0", "2", "0", "\n">>, <<"A", "W", "S", " ", "A", "r", "c", "h", "i", "t", "e", "c", "t", " ", "2", "0", "2", "0", "\n", "C", "K", "A", " ", "K", "u", "b", "e", "r", "n", "e", "t", "e", "s", " ", "2", "0", "2", "1", "\n">>,
   <<"C", "K", "A", " ", "K", "u", "b", "e", "r", "n", "e", "t", "e", "s", " ", "2", "0", "2", "1", "\n", "A", "W", "S", " ", "A", "r", "c", "h", "i", "t", "e", "c", "t", " ", "2", "0", "2", "0", "\n">>}
\* closings that begin with the line of a header
HeaderClosings ==
  {<<"S", "k", "i", "l", "l", "s", "\n", "G", "o", "\n">>, <<"S", "K", "I", "L", "L", "S", ":", "\n", "G", "o", "\n">>, <<"W", "o", "r", "k", " ", "E", "x", "p", "e", "r", "i", "e", "n", "c", "e", "\n", "A", "c", "m", "e", " ", "C", "o", "r", "p", "\n">>,
   <<"T", "e", "c", "h", "n", "i", "c", "a", "l", " ", "S", "k", "i", "l", "l", "s", "\n", "G", "o", "\n">>}
\* closings that are one line of content
ContentClosings == {<<"L", "e", "d", " ", "r", "e", "s", "e", "a", "r", "c", "h", " ", "o", "n", " ", "c", "o", "m", "p", "i", "l", "e", "r", "s", "\n">>}
BoundaryCases ==
  [opening : BoundaryOpenings, header : BoundaryHeaderLines, body : BoundaryBodies,
   closing : {<<>>} \cup HeaderClosings \cup ContentClosings]
BoundaryText(case) == case.opening \o case.header \o case.body \o case.closing
BoundaryInit ==
  /\ text \in {BoundaryText(case) : case \in BoundaryCases}
  /\ year \in {2025}
  /\ Idle
BoundarySpec == BoundaryInit /\ [][SectionNext]_vars

\* the spans of whole lines that start right after the header line and stop
\* before the line of the next header: the lines of the section, and with
\* them the line of content when the closing is one
WholeLineSpans(case) ==
  {Trim(case.body)} \cup
    (IF case.closing \in ContentClosings THEN {Trim(case.body \o case.closing)} ELSE {})
\* C28: the span returned by extractSection is a trimmed contiguous
\* substring of the input that starts right after the matched header and
\* contains no character of the line on which the next recognized header
\* stands, also when that next header is a multi-word header whose last
\* word is itself a common header (e.g. "Work Experience") or when a
\* common-header word occurs in the middle of a content line.
C28_SpanOfWholeLines ==
  pc = "extractSection" =>
    \A case \in BoundaryCases :
      text = BoundaryText(case) => ret \in WholeLineSpans(case)
\* extractSection has cut the section at the line of a one-word header
C28_CutAtHeaderLine ==
  /\ pc = "extractSection"
  /\ text = <<"J", "a", "n", "e", " ", "R", "o", "e", "\n", "C", "e", "r", "t", "i", "f", "i", "c", "a", "t", "i", "o", "n", "s", "\n", "A", "W", "S", " ", "A", "r", "c", "h", "i", "t", "e", "c", "t", " ", "2", "0", "2", "0", "\n", "S", "k", "i", "l", "l", "s", "\n", "G", "o", "\n">>
  /\ ret = <<"A", "W", "S", " ", "A", "r", "c", "h", "i", "t", "e", "c", "t", " ", "2", "0", "2", "0">>

(***************************************************************************)
(* useMultiStepApplication (src/hooks/use-multi-step-application.js): the  *)
(* hook rendered with a list of 1..MaxSteps steps, its navigation          *)
(* functions, the effect that restores the draft and the effect that saves *)
(* it.  A step is its place in the list.  loadDraft resolves to the draft  *)
(* that saveDraft was last handed for the user and the job, which outlives *)
(* the component; every await is a step of its own.                        *)
(***************************************************************************)
MaxSteps == 3
MaxValidations == 2
StepLists == {[k \in 1..n |-> k] : n \in 1..MaxSteps}
\* the variables of the parser, which the hooks leave alone
parser == <<text, year, ret, returned, data, locals>>
submissionState == <<isSubmitting, isUploading, progress, error>>
Min(a, b) == IF a <= b THEN a ELSE b
Max(a, b) == IF a >= b THEN a ELSE b

StepInit == text = <<>> /\ year = 2025 /\ Idle
\* lines 24-38: the first render, with the steps option
Render ==
  /\ pc = "idle"
  /\ steps' \in StepLists
  /\ currentStep' = 0
  /\ draftId' = "null"
  /\ draftLoaded' = FALSE
  /\ fetching' = FALSE
  /\ validating' = 0
  /\ pc' = "rendered"
  /\ UNCHANGED <<parser, draft, submissionState>>
\* the component leaves the page: its state is gone, and what it waits for
\* finds no component to update
Unmount ==
  /\ pc = "rendered"
  /\ steps' = <<>>
  /\ currentStep' = 0
  /\ draftId' = "null"
  /\ draftLoaded' = FALSE
  /\ fetching' = FALSE
  /\ validating' = 0
  /\ pc' = "idle"
  /\ UNCHANGED <<parser, draft, submissionState>>
\* lines 51-61 and 83-89: the effect, up to the await of loadDraft; without a
\* token fetchDraft returns through its finally block
FetchDraft ==
  /\ pc = "rendered"
  /\ ~draftLoaded
  /\ ~fetching
  /\ \E token \in BOOLEAN :
       IF token THEN fetching' = TRUE /\ UNCHANGED draftLoaded
       ELSE draftLoaded' = TRUE /\ UNCHANGED fetching
  /\ UNCHANGED <<parser, pc, steps, currentStep, draft, validating, draftId, submissionState>>
\* lines 61-85: loadDraft has settled
LoadDraftSettled ==
  /\ pc = "rendered"
  /\ fetching
  /\ \E rejected \in BOOLEAN :
       IF ~rejected /\ draft # NoDraft
       THEN /\ draftId' = draft.id
            /\ currentStep' = draft.currentStep
       ELSE UNCHANGED <<draftId, currentStep>>
  /\ draftLoaded' = TRUE
  /\ fetching' = FALSE
  /\ UNCHANGED <<parser, pc, steps, draft, validating, submissionState>>
\* lines 91-123 and 203-233: the draft saved with the current step, by the
\* timer of the autosave or by hand
SaveDraft ==
  /\ pc = "rendered"
  /\ draftLoaded
  /\ \E saved \in BOOLEAN :
       IF saved
       THEN /\ draft' = [id |-> "draft", currentStep |-> currentStep]
            /\ draftId' = "draft"
       ELSE UNCHANGED <<draft, draftId>>
  /\ UNCHANGED <<parser, pc, steps, currentStep, draftLoaded, fetching, validating,
                 submissionState>>
\* lines 126-148 and 161-200: on the last step the form is submitted, and
\* the draft deleted when the submission succeeds; on another step the
\* fields of the step are validated
NextStep ==
  /\ pc = "rendered"
  /\ IF currentStep = Len(steps) - 1
     THEN /\ \E deleted \in BOOLEAN :
               IF deleted THEN draft' = NoDraft /\ draftId' = "null"
               ELSE UNCHANGED <<draft, draftId>>
          /\ UNCHANGED validating
     ELSE /\ currentStep \in 0..Len(steps) - 1
          /\ validating < MaxValidations
          /\ validating' = validating + 1
          /\ UNCHANGED <<draft, draftId>>
  /\ UNCHANGED <<parser, pc, steps, currentStep, draftLoaded, fetching, submissionState>>
\* lines 142-146: form.trigger has resolved
ValidationSettled ==
  /\ pc = "rendered"
  /\ validating > 0
  /\ validating' = validating - 1
  /\ \E isValid \in BOOLEAN :
       currentStep' = IF isValid THEN Min(currentStep + 1, Len(steps) - 1) ELSE currentStep
  /\ UNCHANGED <<parser, pc, steps, draftLoaded, draft, fetching, draftId, submissionState>>
\* lines 150-152
PrevStep ==
  /\ pc = "rendered"
  /\ currentStep' = Max(currentStep - 1, 0)
  /\ UNCHANGED <<parser, pc, steps, draftLoaded, draft, fetching, validating, draftId,
                 submissionState>>
\* lines 154-158
GoToStep ==
  /\ pc = "rendered"
  /\ \E step \in -1..MaxSteps :
       currentStep' = IF step >= 0 /\ step < Len(steps) THEN step ELSE currentStep
  /\ UNCHANGED <<parser, pc, steps, draftLoaded, draft, fetching, validating, draftId,
                 submissionState>>
StepNext ==
  \/ Render
  \/ Unmount
  \/ FetchDraft
  \/ LoadDraftSettled
  \/ SaveDraft
  \/ NextStep
  \/ ValidationSettled
  \/ PrevStep
  \/ GoToStep
StepSpec == StepInit /\ [][StepNext]_vars

\* C29: in useMultiStepApplication, currentStep is an index in
\* 0..steps.length-1 in every reachable state, after any sequence of
\* nextStep, prevStep, goToStep and the asynchronous restore of a saved draft
\* (which sets currentStep from the draft's stored value), so
\* currentStepData is always a defined step.
C29_CurrentStepInRange ==
  pc = "rendered" => currentStep \in 0..Len(steps) - 1
\* the navigation functions by themselves keep currentStep an index of steps
C29_NavigationInRange ==
  [][(pc = "rendered" /\ pc' = "rendered" /\ currentStep \in 0..Len(steps) - 1 /\ ~fetching)
       => currentStep' \in 0..Len(steps') - 1]_vars
\* the draft of the last of three steps has been restored
C29_DraftRestored ==
  /\ pc = "rendered"
  /\ draftLoaded
  /\ draft # NoDraft
  /\ currentStep = draft.currentStep
  /\ currentStep = 2
  /\ validating = 0

(***************************************************************************)
(* useApplicationSubmission (src/hooks/use-application-submission.js):     *)
(* calls of submitApplication, one at a time and at most MaxCalls of them, *)
(* each await a step of its own, with saveDraft and deleteDraft between    *)
(* the calls.  returned holds what the calls have resolved to.             *)
(***************************************************************************)
stepState == <<steps, currentStep, draftLoaded, draft, fetching, validating>>
unread == <<text, year, ret, data, locals>>
SubmissionInit == text = <<>> /\ year = 2025 /\ Idle
\* lines 45-58: the call up to the await of getToken
SubmitApplication ==
  /\ pc \in {"idle", "settled"}
  /\ Len(returned) < MaxCalls
  /\ \E present \in BOOLEAN :
       IF present
       THEN /\ isSubmitting' = TRUE
            /\ error' = "null"
            /\ progress' = 0
            /\ pc' = "getToken"
            /\ UNCHANGED returned
       ELSE /\ error' = "User or job information is missing"
            /\ returned' = Append(returned, "null")
            /\ pc' = "settled"
            /\ UNCHANGED <<isSubmitting, progress>>
  /\ UNCHANGED <<unread, stepState, isUploading, draftId>>
\* lines 59-70, and 93-103 when getToken rejects
GetTokenSettled ==
  /\ pc = "getToken"
  /\ \E rejected \in BOOLEAN :
       IF rejected
       THEN /\ error' = "getToken"
            /\ isSubmitting' = FALSE
            /\ returned' = Append(returned, "null")
            /\ pc' = "settled"
            /\ UNCHANGED <<isUploading, progress>>
       ELSE /\ isUploading' = TRUE
            /\ progress' = 10
            /\ pc' = "processMultiStepApplication"
            /\ UNCHANGED <<error, isSubmitting, returned>>
  /\ UNCHANGED <<unread, stepState, draftId>>
\* lines 72-91, and 93-103 when processMultiStepApplication rejects
ProcessSettled ==
  /\ pc = "processMultiStepApplication"
  /\ \E rejected \in BOOLEAN :
       IF rejected
       THEN /\ error' = "processMultiStepApplication"
            /\ isSubmitting' = FALSE
            /\ returned' = Append(returned, "null")
            /\ pc' = "settled"
            /\ UNCHANGED <<isUploading, progress>>
       ELSE /\ progress' = 100
            /\ isUploading' = FALSE
            /\ IF draftId # "null"
               THEN /\ pc' = "deleteApplicationDraft"
                    /\ UNCHANGED <<isSubmitting, returned>>
               ELSE /\ isSubmitting' = FALSE
                    /\ returned' = Append(returned, "result")
                    /\ pc' = "settled"
            /\ UNCHANGED error
  /\ UNCHANGED <<unread, stepState, draftId>>
\* lines 78-91 and 101-103: deleteApplicationDraft has settled, and a
\* rejection is logged and dropped
DeleteApplicationDraftSettled ==
  /\ pc = "deleteApplicationDraft"
  /\ isSubmitting' = FALSE
  /\ returned' = Append(returned, "result")
  /\ pc' = "settled"
  /\ UNCHANGED <<unread, stepState, isUploading, progress, error, draftId>>
\* lines 110-140: saveDraft of this hook
SaveApplicationDraft ==
  /\ pc \in {"idle", "settled"}
  /\ \E outcome \in {"missing", "rejected", "saved"} :
       /\ error' = CASE outcome = "missing" -> "User or job information is missing"
                     [] outcome = "rejected" -> "saveApplicationDraft"
                     [] OTHER -> error
       /\ draftId' = IF outcome = "saved" THEN "draft" ELSE draftId
  /\ UNCHANGED <<unread, stepState, pc, returned, isSubmitting, isUploading, progress>>
\* lines 178-198: deleteDraft of this hook
DeleteApplicationDraft ==
  /\ pc \in {"idle", "settled"}
  /\ draftId # "null"
  /\ \E rejected \in BOOLEAN :
       IF rejected
       THEN error' = "deleteApplicationDraft" /\ UNCHANGED draftId
       ELSE draftId' = "null" /\ UNCHANGED error
  /\ UNCHANGED <<unread, stepState, pc, returned, isSubmitting, isUploading, progress>>
SubmissionNext ==
  \/ SubmitApplication
  \/ GetTokenSettled
  \/ ProcessSettled
  \/ DeleteApplicationDraftSettled
  \/ SaveApplicationDraft
  \/ DeleteApplicationDraft
SubmissionSpec == SubmissionInit /\ [][SubmissionNext]_vars

\* C30: in useApplicationSubmission, once a call of submitApplication has
\* settled, whether the upload succeeded, getToken failed or
\* processMultiStepApplication rejected, both isSubmitting and isUploading
\* are false; neither flag stays true after a failed submission.
C30_FlagsFalseOnceSettled ==
  pc = "settled" => ~isSubmitting /\ ~isUploading
\* isSubmitting by itself is false once a call has settled
C30_NotSubmittingOnceSettled ==
  pc = "settled" => ~isSubmitting
\* a call has settled after getToken failed
C30_GetTokenFailed ==
  /\ pc = "settled"
  /\ error = "getToken"
  /\ ~isSubmitting
  /\ ~isUploading
====
